---- MODULE Spec2Model ----
(***************************************************************************)
(* A state-machine model of the renderer-side RenderView                   *)
(* (chrome/renderer/render_view.cc) and of the test shell's main()         *)
(* (webkit/tools/test_shell/test_shell_main.cc).                           *)
(*                                                                         *)
(* A RenderView is driven by two kinds of events, both run on the single   *)
(* renderer thread: inbound browser messages (the On... handlers reached   *)
(* through OnMessageReceived) and callbacks of the rendering engine (the   *)
(* WebViewDelegate methods).  Each event is one action.  `call` records the *)
(* handler that ran last, `sent` what it handed to Send() and `engine`     *)
(* what it asked of the rendering engine.                                  *)
(***************************************************************************)
EXTENDS Integers, Sequences, FiniteSets, Bags, TLC

\* ------------------------------------------------------------------ bounds

\* Most RenderViews one run creates (routing ids 1..MaxViews).
MaxViews == 27

\* Most ViewHostMsg_CreateWindow requests one run makes.
MaxRequests == 27

\* Most RenderViews a run creates where the popup limit is not the subject.
MaxNavViews == 2

\* Views that open popups are among the first MaxOpeners created.
MaxOpeners == 1

\* Most popups that a run destroys or disassociates from their counter.
MaxDetached == 1

\* Longest record of DidStartLoading/DidStopLoading messages a run keeps.
MaxSent == 4

\* Most messages of one kind a view has sent and the browser not yet ACKed.
MaxUnacked == 3

\* Largest value the page-id counter may reach in a run.
MaxPageId == 4

\* Largest size_of_range the browser sends with ViewMsg_ReservePageIDRange.
MaxRange == 1

\* Most delayed capture tasks pending at once.
MaxTasks == 1

\* Most counter objects (SharedRenderViewCounter) a run allocates.
MaxCounters == 3

\* Most layout tests the test shell reads from stdin in a run.
MaxTests == 2

\* Most calls of Show one view receives in a run.
MaxShowCalls == 2

\* Most RenderViews a run creates where showing is the subject.
MaxShownViews == 3

\* Most file chooser requests the engine makes in a run.
MaxChoosers == 3

\* Largest history offset, in absolute value, script asks for.
MaxOffset == 10

\* Largest back-list count, in absolute value, a run reaches.
MaxHistory == 10

\* Largest screen coordinate of the cursor and of the window's origin.
MaxCoordinate == 4

\* Largest back-list count, in absolute value, where the history counters are the subject.
MaxBackList == 3

\* --------------------------------------------------------- program constants

MSG_ROUTING_NONE == -2

kMaximumNumberOfUnacknowledgedPopups == 25

kMaxIndexChars == 65535

\* ------------------------------------------------------------------- state

VARIABLES
  views,                      \* routing ids of the live RenderViews
  num_created,                \* RenderViews created so far
  opener_id_,                 \* per view
  did_show_,                  \* per view (RenderWidget): the view has been shown
  next_page_id_,              \* the file-static counter
  page_id_,                   \* per view
  last_page_id_sent_to_browser_,
  last_indexed_page_id_,
  target_url_,                \* per view: the URL last sent by UpdateTargetURL
  target_url_status_,         \* per view: TARGET_NONE / _INFLIGHT / _PENDING
  pending_target_url_,        \* per view
  queued_find_reply_message_, \* per view: a message or NullMsg
  is_loading_,                \* per view
  popup_notification_visible_,
  shared_popup_counter_,      \* per view: the counter object it points to
  decrement_shared_popup_at_destruction_,
  counter_data,               \* counter object -> its data field
  num_counters,               \* counter objects allocated so far
  create_window_requests,     \* ViewHostMsg_CreateWindow sent through the render thread
  alternate_error_page_url_,  \* per view
  last_encoding_name_,        \* per view
  pending_upload_data_,       \* per view: a file upload waits for its form
  ds_extra,                   \* per view: extra data of the main frame's committed request
  prov_extra,                 \* per view: extra data of the main frame's provisional request
  tasks,                      \* bag of delayed CapturePageInfo tasks
  sent,                       \* the messages the last handler gave to Send(), in order
  engine,                     \* the calls the last handler made into the engine, in order
  loading_msgs,               \* the DidStartLoading/DidStopLoading messages sent so far
  unacked_find_replies,       \* ViewHostMsg_Find_Reply sent and not yet ACKed, per view
  unacked_target_urls,        \* ViewHostMsg_UpdateTargetURL sent and not yet ACKed, per view
  assigned_page_ids,          \* page ids given out by new-navigation commits, in order
  show_view_msgs,             \* ViewHostMsg_ShowView sent so far, per view
  show_calls,                 \* calls of Show so far, per view
  file_chooser_,              \* per view: the pending WebFileChooserCallback, or 0
  chooser_callbacks,          \* the WebFileChooserCallbacks handed to RunFileChooser, in order
  enabled_bindings_,          \* per view: the BindingsPolicy flags that are set
  in_view_source_mode,        \* per view: the main frame is in view-source mode
  history_back_list_count_,   \* per view
  history_forward_list_count_, \* per view
  history_navigation_item_,   \* per view: the fake history item and the offset it was made for
  policy,                     \* the last DispositionForNavigationAction: its request and its answer
  dcheck_failed,              \* an assertion (DCHECK / NOTREACHED) has failed
  call,                       \* the handler that ran last, with its arguments
  main_pc,                    \* test shell: position in main()
  cmdline,                    \* test shell: the parsed command line
  main_calls,                 \* test shell: the calls main() has made, in order
  process                     \* "running", "returned" (main returned), "exited" (exit())
                              \* or "aborted" (a failed assertion ended it)

pageVars == <<next_page_id_, page_id_, last_page_id_sent_to_browser_,
              last_indexed_page_id_, assigned_page_ids>>
targetVars == <<target_url_, target_url_status_, pending_target_url_,
                unacked_target_urls>>
popupVars == <<popup_notification_visible_, shared_popup_counter_,
               decrement_shared_popup_at_destruction_, counter_data, num_counters,
               create_window_requests>>
viewVars == <<views, num_created, opener_id_, did_show_>>
requestVars == <<ds_extra, prov_extra>>
findVars == <<queued_find_reply_message_, unacked_find_replies>>
loadVars == <<is_loading_, pending_upload_data_, loading_msgs>>
showVars == <<show_view_msgs, show_calls>>
chooserVars == <<file_chooser_, chooser_callbacks>>
navVars == <<enabled_bindings_, in_view_source_mode, history_back_list_count_,
                  history_forward_list_count_, history_navigation_item_, policy>>
delegateVars == <<showVars, chooserVars, navVars>>
miscVars == <<alternate_error_page_url_, last_encoding_name_, dcheck_failed,
              delegateVars>>
mainVars == <<main_pc, cmdline, main_calls, process>>

vars == <<viewVars, pageVars, targetVars, popupVars, requestVars, findVars, loadVars,
          miscVars, tasks, sent, engine, call, mainVars>>

\* ------------------------------------------------------------------- URLs

\* A GURL: its scheme, its host/path and its query (a list of pieces).
URL(scheme, host) == [scheme |-> scheme, host |-> host, query |-> <<>>]

EmptyGURL == URL("", "")

\* GURL::is_valid / is_empty for the URLs of the model.
IsValid(url) == url.scheme # ""

IsEmpty(url) == url = EmptyGURL

\* GURL::SchemeIsSecure
SchemeIsSecure(url) == url.scheme = "https"

\* GURL::SchemeIs
SchemeIs(url, scheme) == url.scheme = scheme

kUnreachableWebDataURL == URL("chrome-ui", "chromewebdata")

\* URLs the engine and the browser hand to a view.
PageURLs == {URL("http", "a"), URL("https", "b")}

TargetURLs == {EmptyGURL, URL("http", "a"), URL("https", "b")}

\* --------------------------------------------------------------- messages

TARGET_NONE == "TARGET_NONE"
TARGET_INFLIGHT == "TARGET_INFLIGHT"
TARGET_PENDING == "TARGET_PENDING"

\* The IPC messages a RenderView sends: the message type, the routing id and
\* the parameters the model tracks.
UpdateTargetURLMsg(rid, page_id, url) ==
  [type |-> "ViewHostMsg_UpdateTargetURL", routing_id |-> rid, page_id |-> page_id,
   url |-> url]

FindReplyMsg(rid, request_id, count, final_update) ==
  [type |-> "ViewHostMsg_Find_Reply", routing_id |-> rid, request_id |-> request_id,
   count |-> count, final_update |-> final_update]

PageMsg(type, rid, page_id) ==
  [type |-> type, routing_id |-> rid, page_id |-> page_id]

PageURLMsg(type, rid, page_id, url) ==
  [type |-> type, routing_id |-> rid, page_id |-> page_id, url |-> url]

FrameNavigateMsg(rid, page_id, is_main, transition) ==
  [type |-> "ViewHostMsg_FrameNavigate", routing_id |-> rid, page_id |-> page_id,
   is_main_frame |-> is_main, transition |-> transition]

UpdateEncodingMsg(rid, encoding_name) ==
  [type |-> "ViewHostMsg_UpdateEncoding", routing_id |-> rid,
   encoding_name |-> encoding_name]

PlainMsg(type, rid) == [type |-> type, routing_id |-> rid]

\* The scoped_ptr<IPC::Message> that holds nothing.
NullMsg == [type |-> "NULL"]

\* A call into the rendering engine.
EngineCall(name, rid, url, flag) ==
  [name |-> name, view |-> rid, url |-> url, flag |-> flag]

\* The record of the handler that ran last.
Call(op, v, url, n) == [op |-> op, view |-> v, url |-> url, n |-> n]

NoCall == Call("none", 0, EmptyGURL, 0)

\* A handler that sends one message, or makes one engine call.
One(m) == <<m>>

\* The messages of some types among those the last handler sent.
SentOfType(types) == SelectSeq(sent, LAMBDA m : m.type \in types)

\* The engine calls of one name among those the last handler made.
EngineCallsNamed(name) == SelectSeq(engine, LAMBDA c : c.name = name)

\* ---------------------------------------------------------- request extra data

\* RenderViewExtraRequestData, or its absence (GetExtraData() == NULL).
\* session_updates counts the commits that took the request for a session
\* history navigation (ran UpdateSessionHistory and set page_id_ from it).
NoExtraData ==
  [present |-> FALSE, pending_page_id |-> -1, transition_type |-> "LINK",
   request_committed |-> FALSE, session_updates |-> 0]

RenderViewExtraRequestData(pending_page_id, transition) ==
  [present |-> TRUE, pending_page_id |-> pending_page_id,
   transition_type |-> transition, request_committed |-> FALSE, session_updates |-> 0]

\* RenderViewExtraRequestData::is_new_navigation
extra_is_new_navigation(extra) == extra.pending_page_id = -1

\* ------------------------------------------------------------------- Init

AllViews == 1..MaxViews

\* Counter objects: one per view made without an opener, one more per
\* OnDisassociateFromPopupCount.
AllCounters == 1..MaxCounters

\* The fields of every RenderView as the constructor leaves them, and the
\* renderer's records, with `first` the views the browser has created (each
\* without an opener, so each with a counter object of its own).
RendererState(first) ==
  /\ views = first
  /\ num_created = Cardinality(first)
  /\ opener_id_ = [v \in AllViews |-> MSG_ROUTING_NONE]
  /\ did_show_ = [v \in AllViews |-> v \in first]
  /\ next_page_id_ = 1
  /\ page_id_ = [v \in AllViews |-> -1]
  /\ last_page_id_sent_to_browser_ = [v \in AllViews |-> -1]
  /\ last_indexed_page_id_ = [v \in AllViews |-> -1]
  /\ target_url_ = [v \in AllViews |-> EmptyGURL]
  /\ target_url_status_ = [v \in AllViews |-> TARGET_NONE]
  /\ pending_target_url_ = [v \in AllViews |-> EmptyGURL]
  /\ queued_find_reply_message_ = [v \in AllViews |-> NullMsg]
  /\ is_loading_ = [v \in AllViews |-> FALSE]
  /\ popup_notification_visible_ = [v \in AllViews |-> FALSE]
  /\ shared_popup_counter_ = [v \in AllViews |-> IF v \in first THEN v ELSE 0]
  /\ decrement_shared_popup_at_destruction_ = [v \in AllViews |-> FALSE]
  /\ counter_data = [c \in AllCounters |-> 0]
  /\ num_counters = Cardinality(first)
  /\ create_window_requests = 0
  /\ alternate_error_page_url_ = [v \in AllViews |-> EmptyGURL]
  /\ last_encoding_name_ = [v \in AllViews |-> ""]
  /\ pending_upload_data_ = [v \in AllViews |-> FALSE]
  /\ ds_extra = [v \in AllViews |-> NoExtraData]
  /\ prov_extra = [v \in AllViews |-> NoExtraData]
  /\ tasks = EmptyBag
  /\ sent = <<>>
  /\ engine = <<>>
  /\ loading_msgs = <<>>
  /\ unacked_find_replies = [v \in AllViews |-> 0]
  /\ unacked_target_urls = [v \in AllViews |-> 0]
  /\ assigned_page_ids = <<>>
  /\ show_view_msgs = [v \in AllViews |-> 0]
  /\ show_calls = [v \in AllViews |-> 0]
  /\ file_chooser_ = [v \in AllViews |-> 0]
  /\ chooser_callbacks = <<>>
  /\ enabled_bindings_ = [v \in AllViews |-> {}]
  /\ in_view_source_mode = [v \in AllViews |-> FALSE]
  /\ history_back_list_count_ = [v \in AllViews |-> 0]
  /\ history_forward_list_count_ = [v \in AllViews |-> 0]
  /\ history_navigation_item_ = [v \in AllViews |-> [url |-> EmptyGURL, offset |-> 0]]
  /\ policy = [is_main_frame |-> FALSE, has_extra_data |-> FALSE, disposition |-> "CURRENT_TAB", result |-> "CURRENT_TAB"]
  /\ dcheck_failed = FALSE
  /\ call = NoCall

\* The command lines of the test shell: which switches are present, whether
\* --dump-pixels names no file, and whether a loose value (a URL) is given.
CommandLines ==
  [layout_tests : BOOLEAN, playback_mode : BOOLEAN, record_mode : BOOLEAN,
   no_events : BOOLEAN, dump_pixels : BOOLEAN, pixel_file_name_empty : BOOLEAN,
   loose_value : BOOLEAN]

\* The renderer process with one RenderView, created by the browser without
\* an opener.  No test shell runs.
InitRenderer ==
  /\ RendererState({1})
  /\ main_pc = "none"
  /\ cmdline = [layout_tests |-> FALSE, playback_mode |-> FALSE, record_mode |-> FALSE,
                no_events |-> FALSE, dump_pixels |-> FALSE, pixel_file_name_empty |-> FALSE,
                loose_value |-> FALSE]
  /\ main_calls = <<>>
  /\ process = "running"

\* The test shell at the entry of main(), with any command line.  It hosts
\* no RenderView.
InitTestShell ==
  /\ RendererState({})
  /\ main_pc = "start"
  /\ cmdline \in CommandLines
  /\ main_calls = <<>>
  /\ process = "running"

\* A handler of view v runs only while the view lives and the process runs.
Running(v) == v \in views /\ process = "running"

\* -------------------------------------------------------- target URL updates

\* UpdateTargetURL without the flow control: every call sends its URL.
UpdateTargetURL_Unthrottled(v, url) ==
  /\ Running(v)
  /\ call' = Call("UpdateTargetURL", v, url, 0)
  /\ unacked_target_urls[v] < MaxUnacked
  /\ sent' = One(UpdateTargetURLMsg(v, page_id_[v], url))
  /\ unacked_target_urls' = [unacked_target_urls EXCEPT ![v] = @ + 1]
  /\ target_url_' = [target_url_ EXCEPT ![v] = url]
  /\ target_url_status_' = [target_url_status_ EXCEPT ![v] = TARGET_INFLIGHT]
  /\ UNCHANGED pending_target_url_
  /\ engine' = <<>>
  /\ UNCHANGED <<viewVars, pageVars, popupVars, requestVars, findVars, loadVars,
                 miscVars, tasks, mainVars>>

\* RenderView::UpdateTargetURL
UpdateTargetURL(v, url) ==
  /\ Running(v)
  /\ call' = Call("UpdateTargetURL", v, url, 0)
  /\ IF url # target_url_[v]
       THEN IF target_url_status_[v] \in {TARGET_INFLIGHT, TARGET_PENDING}
              THEN /\ pending_target_url_' = [pending_target_url_ EXCEPT ![v] = url]
                   /\ target_url_status_' = [target_url_status_ EXCEPT ![v] = TARGET_PENDING]
                   /\ sent' = <<>> /\ UNCHANGED <<target_url_, unacked_target_urls>>
              ELSE /\ unacked_target_urls[v] < MaxUnacked
                   /\ sent' = One(UpdateTargetURLMsg(v, page_id_[v], url))
                   /\ unacked_target_urls' =
                        [unacked_target_urls EXCEPT ![v] = @ + 1]
                   /\ target_url_' = [target_url_ EXCEPT ![v] = url]
                   /\ target_url_status_' = [target_url_status_ EXCEPT ![v] = TARGET_INFLIGHT]
                   /\ UNCHANGED pending_target_url_
       ELSE sent' = <<>> /\ UNCHANGED <<targetVars>>
  /\ engine' = <<>>
  /\ UNCHANGED <<viewVars, pageVars, popupVars, requestVars, findVars, loadVars,
                 miscVars, tasks, mainVars>>

\* RenderView::OnUpdateTargetURLAck.  The browser answers each
\* ViewHostMsg_UpdateTargetURL with one ViewMsg_UpdateTargetURL_ACK.
OnUpdateTargetURLAck(v) ==
  /\ Running(v)
  /\ unacked_target_urls[v] > 0
  /\ call' = Call("OnUpdateTargetURLAck", v, EmptyGURL, 0)
  /\ IF target_url_status_[v] = TARGET_PENDING
       THEN /\ sent' = One(UpdateTargetURLMsg(v, page_id_[v], pending_target_url_[v]))
            /\ unacked_target_urls' = [unacked_target_urls EXCEPT ![v] = @ - 1 + 1]
       ELSE /\ sent' = <<>>
            /\ unacked_target_urls' = [unacked_target_urls EXCEPT ![v] = @ - 1]
  /\ target_url_status_' = [target_url_status_ EXCEPT ![v] = TARGET_NONE]
  /\ UNCHANGED <<target_url_, pending_target_url_>>
  /\ engine' = <<>>
  /\ UNCHANGED <<viewVars, pageVars, popupVars, requestVars, findVars, loadVars,
                 miscVars, tasks, mainVars>>

\* ------------------------------------------------------------ find in page

\* RenderView::ReportFindInPageMatchCount
ReportFindInPageMatchCount(v, count, request_id, final_update) ==
  /\ Running(v)
  /\ call' = Call("ReportFindInPageMatchCount", v, EmptyGURL, count)
  /\ IF queued_find_reply_message_[v] # NullMsg
       THEN /\ queued_find_reply_message_' =
                 [queued_find_reply_message_ EXCEPT
                    ![v] = FindReplyMsg(v, request_id, count, final_update)]
            /\ sent' = <<>>
            /\ UNCHANGED unacked_find_replies
       ELSE /\ unacked_find_replies[v] < MaxUnacked
            /\ sent' = One(FindReplyMsg(v, request_id, count, final_update))
            /\ unacked_find_replies' = [unacked_find_replies EXCEPT ![v] = @ + 1]
            /\ UNCHANGED queued_find_reply_message_
  /\ engine' = <<>>
  /\ UNCHANGED <<viewVars, pageVars, targetVars, popupVars, requestVars, loadVars,
                 miscVars, tasks, mainVars>>

\* RenderView::OnFindReplyAck.  The browser sends ViewMsg_FindReplyACK in
\* answer to a ViewHostMsg_Find_Reply.
OnFindReplyAck(v) ==
  /\ Running(v)
  /\ unacked_find_replies[v] > 0
  /\ call' = Call("OnFindReplyAck", v, EmptyGURL, 0)
  /\ IF queued_find_reply_message_[v] # NullMsg
       THEN /\ sent' = One(queued_find_reply_message_[v])
            /\ queued_find_reply_message_' =
                 [queued_find_reply_message_ EXCEPT ![v] = NullMsg]
            /\ UNCHANGED unacked_find_replies
       ELSE /\ sent' = <<>>
            /\ unacked_find_replies' = [unacked_find_replies EXCEPT ![v] = @ - 1]
            /\ UNCHANGED queued_find_reply_message_
  /\ engine' = <<>>
  /\ UNCHANGED <<viewVars, pageVars, targetVars, popupVars, requestVars, loadVars,
                 miscVars, tasks, mainVars>>

\* ----------------------------------------------------------------- loading

\* A delayed task made by method_factory_.NewRunnableMethod(&CapturePageInfo, ...).
CaptureTask(v, load_id, preliminary_capture) ==
  [view |-> v, load_id |-> load_id, preliminary_capture |-> preliminary_capture]

\* MessageLoop::PostDelayedTask
PostDelayedTask(task) == tasks (+) SetToBag({task})

CanPost == BagCardinality(tasks) < MaxTasks

\* DidStartLoading without the is_loading_ test.
DidStartLoading_Unchecked(v) ==
  /\ Running(v)
  /\ call' = Call("DidStartLoading", v, EmptyGURL, 0)
  /\ Len(loading_msgs) < MaxSent
  /\ is_loading_' = [is_loading_ EXCEPT ![v] = TRUE]
  /\ sent' = One(PageMsg("ViewHostMsg_DidStartLoading", v, page_id_[v]))
  /\ loading_msgs' = Append(loading_msgs, PlainMsg("ViewHostMsg_DidStartLoading", v))
  /\ engine' = <<>>
  /\ UNCHANGED <<viewVars, pageVars, targetVars, popupVars, requestVars, findVars,
                 pending_upload_data_, miscVars, tasks, mainVars>>

\* RenderView::DidStartLoading
DidStartLoading(v) ==
  /\ Running(v)
  /\ call' = Call("DidStartLoading", v, EmptyGURL, 0)
  /\ IF is_loading_[v]
       THEN sent' = <<>> /\ UNCHANGED <<is_loading_, loading_msgs>>
       ELSE /\ Len(loading_msgs) < MaxSent
            /\ is_loading_' = [is_loading_ EXCEPT ![v] = TRUE]
            /\ sent' = One(PageMsg("ViewHostMsg_DidStartLoading", v, page_id_[v]))
            /\ loading_msgs' = Append(loading_msgs, PlainMsg("ViewHostMsg_DidStartLoading", v))
  /\ engine' = <<>>
  /\ UNCHANGED <<viewVars, pageVars, targetVars, popupVars, requestVars, findVars,
                 pending_upload_data_, miscVars, tasks, mainVars>>

\* RenderView::AddGURLSearchProvider
AddGURLSearchProvider(v, osd_url) ==
  IF ~IsEmpty(osd_url)
    THEN <<PageURLMsg("ViewHostMsg_PageHasOSDD", v, page_id_[v], osd_url)>>
    ELSE <<>>

\* RenderView::DidStopLoading, with ProcessPendingUpload and ResetPendingUpload.
\* favicon_url and osdd_url are what the main frame reports.
DidStopLoading(v, favicon_url, osdd_url) ==
  /\ Running(v)
  /\ call' = Call("DidStopLoading", v, favicon_url, 0)
  /\ IF ~is_loading_[v]
       THEN sent' = <<>> /\ engine' = <<>> /\ UNCHANGED <<loadVars, tasks>>
       ELSE LET msgs ==
                  (IF ~IsEmpty(favicon_url)
                     THEN <<PageURLMsg("ViewHostMsg_UpdateFavIconURL", v, page_id_[v],
                                       favicon_url)>>
                     ELSE <<>>)
                  \o AddGURLSearchProvider(v, osdd_url)
                  \o <<PageMsg("ViewHostMsg_DidStopLoading", v, page_id_[v])>>
                calls ==
                  IF pending_upload_data_[v]
                    THEN <<EngineCall("FillFormToUploadFile", v, EmptyGURL, FALSE)>>
                    ELSE <<>>
            IN  /\ Len(loading_msgs) < MaxSent
                /\ is_loading_' = [is_loading_ EXCEPT ![v] = FALSE]
                /\ sent' = msgs
                /\ loading_msgs' = Append(loading_msgs, PlainMsg("ViewHostMsg_DidStopLoading", v))
                /\ CanPost
                /\ tasks' = PostDelayedTask(CaptureTask(v, page_id_[v], FALSE))
                /\ engine' = calls
                /\ pending_upload_data_' = [pending_upload_data_ EXCEPT ![v] = FALSE]
  /\ UNCHANGED <<viewVars, pageVars, targetVars, popupVars, requestVars, findVars,
                 miscVars, mainVars>>

\* RenderView::OnUploadFileRequest, with ProcessPendingUpload.  fill_ok is
\* the result of webkit_glue::FillFormToUploadFile.
OnUploadFileRequest(v, fill_ok) ==
  /\ Running(v)
  /\ call' = Call("OnUploadFileRequest", v, EmptyGURL, 0)
  /\ engine' = One(EngineCall("FillFormToUploadFile", v, EmptyGURL, fill_ok))
  /\ pending_upload_data_' = [pending_upload_data_ EXCEPT ![v] = ~fill_ok]
  /\ sent' = <<>>
  /\ UNCHANGED <<viewVars, pageVars, targetVars, popupVars, requestVars, findVars,
                 is_loading_, loading_msgs, miscVars, tasks, mainVars>>

\* --------------------------------------------------------------- navigation

Max(a, b) == IF a >= b THEN a ELSE b

\* Transition types the browser sends with ViewMsg_Navigate.
Transitions == {"LINK", "TYPED", "START_PAGE", "MANUAL_SUBFRAME"}

\* PageTransition::IsMainFrame
IsMainFrame(transition) == transition \notin {"AUTO_SUBFRAME", "MANUAL_SUBFRAME"}

\* RenderView::SetNextPageID: only during process startup, which the DCHECKs
\* state as next_page_id_ == 1 and next_page_id >= next_page_id_.
SetNextPageID(next_page_id) ==
  /\ process = "running"
  /\ next_page_id_ = 1
  /\ next_page_id >= next_page_id_
  /\ next_page_id <= MaxPageId
  /\ call' = Call("SetNextPageID", 0, EmptyGURL, next_page_id)
  /\ next_page_id_' = next_page_id
  /\ UNCHANGED <<page_id_, last_page_id_sent_to_browser_, last_indexed_page_id_,
                 assigned_page_ids>>
  /\ sent' = <<>>
  /\ engine' = <<>>
  /\ UNCHANGED <<viewVars, targetVars, popupVars, requestVars, findVars, loadVars,
                 miscVars, tasks, mainVars>>

\* OnReservePageIDRange that sets the counter from the range instead of
\* advancing it.
OnReservePageIDRange_Assign(v, size_of_range) ==
  /\ Running(v)
  /\ call' = Call("OnReservePageIDRange", v, EmptyGURL, size_of_range)
  /\ next_page_id_' = size_of_range + 1
  /\ UNCHANGED <<page_id_, last_page_id_sent_to_browser_, last_indexed_page_id_,
                 assigned_page_ids>>
  /\ sent' = <<>>
  /\ engine' = <<>>
  /\ UNCHANGED <<viewVars, targetVars, popupVars, requestVars, findVars, loadVars,
                 miscVars, tasks, mainVars>>

\* RenderView::OnReservePageIDRange
OnReservePageIDRange(v, size_of_range) ==
  /\ Running(v)
  /\ next_page_id_ + size_of_range + 1 <= MaxPageId
  /\ call' = Call("OnReservePageIDRange", v, EmptyGURL, size_of_range)
  /\ next_page_id_' = next_page_id_ + size_of_range + 1
  /\ UNCHANGED <<page_id_, last_page_id_sent_to_browser_, last_indexed_page_id_,
                 assigned_page_ids>>
  /\ sent' = <<>>
  /\ engine' = <<>>
  /\ UNCHANGED <<viewVars, targetVars, popupVars, requestVars, findVars, loadVars,
                 miscVars, tasks, mainVars>>

\* RenderView::OnNavigate: the main frame is asked to load a request that
\* carries RenderViewExtraRequestData; the request becomes the frame's
\* provisional one.
OnNavigate(v, url, page_id, transition) ==
  /\ Running(v)
  /\ call' = Call("OnNavigate", v, url, page_id)
  /\ engine' = One(EngineCall("LoadRequest", v, url, page_id # -1))
  /\ prov_extra' = [prov_extra EXCEPT ![v] = RenderViewExtraRequestData(page_id, transition)]
  /\ sent' = <<>>
  /\ UNCHANGED <<viewVars, pageVars, targetVars, popupVars, ds_extra, findVars,
                 loadVars, miscVars, tasks, mainVars>>

\* RenderView::UpdateSessionHistory: the message it sends, if any.
\* has_previous_state is the result of GetPreviousHistoryState.
UpdateSessionHistory(v, has_previous_state) ==
  IF page_id_[v] = -1 \/ ~has_previous_state
    THEN <<>>
    ELSE <<PageMsg("ViewHostMsg_UpdateState", v, page_id_[v])>>

\* The transition type RenderView::UpdateURL reports for a frame that
\* committed while the view's page id is page_id.
UpdateURLTransition(v, is_main_frame, extra, is_form_submit, page_id) ==
  IF is_main_frame
    THEN LET t0 == IF extra.present THEN extra.transition_type ELSE "LINK"
             t1 == IF ~IsMainFrame(t0) THEN "LINK" ELSE t0
         IN  IF t1 = "LINK" /\ is_form_submit THEN "FORM_SUBMIT" ELSE t1
    ELSE IF page_id > last_page_id_sent_to_browser_[v]
           THEN "MANUAL_SUBFRAME"
           ELSE "AUTO_SUBFRAME"

\* RenderView::UpdateEncoding: the message it sends, if any.
UpdateEncoding(v, is_main_frame, encoding_name) ==
  IF is_main_frame /\ last_encoding_name_[v] # encoding_name
    THEN <<UpdateEncodingMsg(v, encoding_name)>>
    ELSE <<>>

\* The session-history test without the request_committed flag.
IsSessionHistoryNavigation_Recommitted(extra_data, page_id) ==
  /\ extra_data.present
  /\ ~extra_is_new_navigation(extra_data)
  /\ page_id # extra_data.pending_page_id

\* DidCommitLoadForFrame's test for "a successful session history
\* navigation", made when the commit is not a new navigation.
IsSessionHistoryNavigation(extra_data, page_id) ==
  /\ extra_data.present
  /\ ~extra_is_new_navigation(extra_data)
  /\ ~extra_data.request_committed
  /\ page_id # extra_data.pending_page_id

\* RenderView::DidCommitLoadForFrame, with UpdateSessionHistory, UpdateURL and
\* UpdateEncoding.  When the main frame commits a new document its provisional
\* request becomes the committed one; same_document says the frame kept its
\* data source (a #ref navigation).
DidCommitLoadForFrame(v, is_main_frame, is_new_navigation, same_document, has_previous_state, is_form_submit, encoding_name) ==
  /\ Running(v)
  /\ call' = Call("DidCommitLoadForFrame", v, EmptyGURL,
                  IF is_new_navigation THEN 1 ELSE 0)
  /\ LET extra_data == IF is_main_frame /\ ~same_document
                         THEN prov_extra[v] ELSE ds_extra[v]
         session == ~is_new_navigation
                    /\ IsSessionHistoryNavigation(extra_data, page_id_[v])
         new_page_id == IF is_new_navigation THEN next_page_id_
                        ELSE IF session THEN extra_data.pending_page_id
                        ELSE page_id_[v]
         history == IF is_new_navigation \/ session
                      THEN UpdateSessionHistory(v, has_previous_state) ELSE <<>>
         frame_extra == IF is_main_frame THEN extra_data ELSE NoExtraData
         msgs == history
                 \o <<FrameNavigateMsg(v, new_page_id, is_main_frame,
                        UpdateURLTransition(v, is_main_frame, frame_extra,
                                            is_form_submit, new_page_id))>>
                 \o UpdateEncoding(v, is_main_frame, encoding_name)
     IN  /\ is_new_navigation => next_page_id_ < MaxPageId /\ CanPost
         /\ sent' = msgs
         /\ page_id_' = [page_id_ EXCEPT ![v] = new_page_id]
         /\ next_page_id_' = IF is_new_navigation THEN next_page_id_ + 1 ELSE next_page_id_
         /\ assigned_page_ids' = IF is_new_navigation
                                   THEN Append(assigned_page_ids, new_page_id)
                                   ELSE assigned_page_ids
         /\ tasks' = IF is_new_navigation
                       THEN PostDelayedTask(CaptureTask(v, new_page_id, TRUE))
                       ELSE tasks
         /\ ds_extra' = [ds_extra EXCEPT ![v] =
                           IF extra_data.present
                             THEN [extra_data EXCEPT !.request_committed = TRUE,
                                                     !.session_updates =
                                                        IF session THEN @ + 1 ELSE @,
                                                     !.transition_type =
                                                        IF is_main_frame THEN "LINK" ELSE @]
                             ELSE extra_data]
         /\ prov_extra' = [prov_extra EXCEPT ![v] =
                             IF is_main_frame /\ ~same_document THEN NoExtraData ELSE @]
         /\ last_page_id_sent_to_browser_' =
              [last_page_id_sent_to_browser_ EXCEPT ![v] = Max(@, new_page_id)]
         /\ last_encoding_name_' =
              [last_encoding_name_ EXCEPT ![v] = IF is_main_frame THEN encoding_name ELSE @]
  /\ UNCHANGED <<last_indexed_page_id_, alternate_error_page_url_, dcheck_failed,
                 delegateVars>>
  /\ engine' = <<>>
  /\ UNCHANGED <<viewVars, targetVars, popupVars, findVars, loadVars, mainVars>>

\* ------------------------------------------------------------- page capture

\* What the engine reports of the main frame when a capture runs: whether the
\* frame exists, view-source mode, an unreachable URL, the frame's URL, its
\* plain text (size, and the index of its last whitespace or -1), whether the
\* view's size is empty and whether CaptureImage succeeds.
FrameTexts == {[size |-> 0, last_space |-> -1], [size |-> 10, last_space |-> 4],
               [size |-> kMaxIndexChars, last_space |-> 100],
               [size |-> kMaxIndexChars, last_space |-> -1]}

FrameStates ==
  [exists : BOOLEAN, view_source : BOOLEAN, unreachable : BOOLEAN,
   url : PageURLs \cup {EmptyGURL}, text : FrameTexts,
   size_empty : BOOLEAN, image_ok : BOOLEAN]

PageContentsMsg(url, load_id, size) ==
  [type |-> "ViewHostMsg_PageContents", url |-> url, page_id |-> load_id, size |-> size]

ThumbnailMsg(rid, url) ==
  [type |-> "ViewHostMsg_Thumbnail", routing_id |-> rid, url |-> url]

\* CaptureText without the test of the frame's scheme.
CaptureText_AnyScheme(frame_exists, url, text) ==
  IF ~frame_exists THEN 0
  ELSE IF text.size = kMaxIndexChars
         THEN IF text.last_space = -1 THEN text.size ELSE text.last_space
         ELSE text.size

\* RenderView::CaptureText: the size of the text it leaves in *contents.
CaptureText(frame_exists, url, text) ==
  IF ~frame_exists THEN 0
  ELSE IF SchemeIsSecure(url) THEN 0
  ELSE IF text.size = kMaxIndexChars
         THEN IF text.last_space = -1 THEN text.size ELSE text.last_space
         ELSE text.size

\* RenderView::SendThumbnail: the message it sends, if any.
SendThumbnail(v, frame) ==
  IF ~frame.exists \/ IsEmpty(frame.url) \/ frame.size_empty \/ ~frame.image_ok
    THEN <<>>
    ELSE <<ThumbnailMsg(v, frame.url)>>

\* CapturePageInfo without the test of load_id against page_id_.
CapturePageInfo_AnyPage(task, frame) ==
  LET v == task.view
      load_id == task.load_id
      skipped == \/ load_id = last_indexed_page_id_[v]
                 \/ ~frame.exists
                 \/ frame.view_source
                 \/ frame.unreachable
      contents == CaptureText(frame.exists, frame.url, frame.text)
      msgs == IF skipped \/ IsEmpty(frame.url) THEN <<>>
              ELSE (IF contents # 0
                      THEN <<PageContentsMsg(frame.url, load_id, contents)>>
                      ELSE <<>>)
                   \o SendThumbnail(v, frame)
  IN  /\ BagIn(task, tasks)
      /\ Running(v)
      /\ call' = Call("CapturePageInfo", v, frame.url, load_id)
      /\ tasks' = tasks (-) SetToBag({task})
      /\ sent' = msgs
      /\ last_indexed_page_id_' =
           IF ~skipped /\ ~task.preliminary_capture
             THEN [last_indexed_page_id_ EXCEPT ![v] = load_id]
             ELSE last_indexed_page_id_
      /\ UNCHANGED <<next_page_id_, page_id_, last_page_id_sent_to_browser_,
                     assigned_page_ids>>
      /\ engine' = <<>>
      /\ UNCHANGED <<viewVars, targetVars, popupVars, requestVars, findVars, loadVars,
                     miscVars, mainVars>>

\* RenderView::CapturePageInfo, run as the delayed task `task`.
CapturePageInfo(task, frame) ==
  LET v == task.view
      load_id == task.load_id
      skipped == \/ load_id # page_id_[v]
                 \/ load_id = last_indexed_page_id_[v]
                 \/ ~frame.exists
                 \/ frame.view_source
                 \/ frame.unreachable
      contents == CaptureText(frame.exists, frame.url, frame.text)
      msgs == IF skipped \/ IsEmpty(frame.url) THEN <<>>
              ELSE (IF contents # 0
                      THEN <<PageContentsMsg(frame.url, load_id, contents)>>
                      ELSE <<>>)
                   \o SendThumbnail(v, frame)
  IN  /\ BagIn(task, tasks)
      /\ Running(v)
      /\ call' = Call("CapturePageInfo", v, frame.url, load_id)
      /\ tasks' = tasks (-) SetToBag({task})
      /\ sent' = msgs
      /\ last_indexed_page_id_' =
           IF ~skipped /\ ~task.preliminary_capture
             THEN [last_indexed_page_id_ EXCEPT ![v] = load_id]
             ELSE last_indexed_page_id_
      /\ UNCHANGED <<next_page_id_, page_id_, last_page_id_sent_to_browser_,
                     assigned_page_ids>>
      /\ engine' = <<>>
      /\ UNCHANGED <<viewVars, targetVars, popupVars, requestVars, findVars, loadVars,
                     miscVars, mainVars>>

\* -------------------------------------------------------------- error pages

ErrorCodes == {"ERR_ABORTED", "ERR_NAME_NOT_RESOLVED", "ERR_CONNECTION_FAILED",
               "ERR_CONNECTION_REFUSED", "ERR_ADDRESS_UNREACHABLE", "ERR_TIMED_OUT",
               "ERR_CACHE_MISS", "ERR_FAILED"}

\* The error codes for which the alternate error page service is tried.
AlternateErrorCodes == {"ERR_NAME_NOT_RESOLVED", "ERR_CONNECTION_FAILED",
                        "ERR_CONNECTION_REFUSED", "ERR_ADDRESS_UNREACHABLE",
                        "ERR_TIMED_OUT"}

\* URLs whose load may fail, one of them with a query.
FailedURLs == PageURLs \cup {[URL("http", "a") EXCEPT !.query = <<"q=1">>],
                             [URL("https", "b") EXCEPT !.query = <<"q=1">>]}

\* What the browser sends with ViewMsg_SetAltErrorPageURL.
AltErrorPageURLs == {EmptyGURL, [URL("http", "linkdoctor") EXCEPT !.query = <<"hl=en">>]}

\* RenderView::OnSetAltErrorPageURL
OnSetAltErrorPageURL(v, url) ==
  /\ Running(v)
  /\ call' = Call("OnSetAltErrorPageURL", v, url, 0)
  /\ alternate_error_page_url_' = [alternate_error_page_url_ EXCEPT ![v] = url]
  /\ UNCHANGED <<last_encoding_name_, dcheck_failed, delegateVars>>
  /\ sent' = <<>>
  /\ engine' = <<>>
  /\ UNCHANGED <<viewVars, pageVars, targetVars, popupVars, requestVars, findVars,
                 loadVars, tasks, mainVars>>

\* GetAlternateErrorPageURL without the test of the failed URL's scheme.
GetAlternateErrorPageURL_AnyScheme(v, failedURL, error_type) ==
  IF ~IsValid(alternate_error_page_url_[v]) THEN EmptyGURL
  ELSE LET url_to_send == [failedURL EXCEPT !.query = <<>>]
           params == alternate_error_page_url_[v].query
                     \o <<"&url=", url_to_send.scheme, url_to_send.host,
                          "&sourceid=chrome", "&error=",
                          CASE error_type = "DNS_ERROR" -> "dnserror"
                            [] error_type = "HTTP_404" -> "http404"
                            [] error_type = "CONNECTION_ERROR" -> "connectionfailure"
                            [] OTHER -> "">>
       IN  [alternate_error_page_url_[v] EXCEPT !.query = params]

\* RenderView::GetAlternateErrorPageURL
GetAlternateErrorPageURL(v, failedURL, error_type) ==
  IF SchemeIsSecure(failedURL) THEN EmptyGURL
  ELSE IF ~IsValid(alternate_error_page_url_[v]) THEN EmptyGURL
  ELSE LET url_to_send == [failedURL EXCEPT !.query = <<>>]
           params == alternate_error_page_url_[v].query
                     \o <<"&url=", url_to_send.scheme, url_to_send.host,
                          "&sourceid=chrome", "&error=",
                          CASE error_type = "DNS_ERROR" -> "dnserror"
                            [] error_type = "HTTP_404" -> "http404"
                            [] error_type = "CONNECTION_ERROR" -> "connectionfailure"
                            [] OTHER -> "">>
       IN  [alternate_error_page_url_[v] EXCEPT !.query = params]

DidFailMsg(rid, is_main_frame, error_code, failed_url, show_repost_interstitial) ==
  [type |-> "ViewHostMsg_DidFailProvisionalLoadWithError", routing_id |-> rid,
   is_main_frame |-> is_main_frame, error_code |-> error_code, url |-> failed_url,
   show_repost_interstitial |-> show_repost_interstitial]

\* RenderView::DidFailProvisionalLoadWithError, with LoadNavigationErrorPage.
\* The failed request is the frame's provisional one.
DidFailProvisionalLoadWithError(v, is_main_frame, error_code, failed_url, is_post) ==
  /\ Running(v)
  /\ call' = Call("DidFailProvisionalLoadWithError", v, failed_url, 0)
  /\ LET extra_data == IF is_main_frame THEN prov_extra[v] ELSE NoExtraData
         replace == extra_data.present /\ ~extra_is_new_navigation(extra_data)
         show_repost_interstitial == error_code = "ERR_CACHE_MISS" /\ is_post
         error_page_url ==
           IF error_code \in AlternateErrorCodes
             THEN GetAlternateErrorPageURL(v, failed_url,
                    IF error_code = "ERR_NAME_NOT_RESOLVED"
                      THEN "DNS_ERROR" ELSE "CONNECTION_ERROR")
             ELSE EmptyGURL
         calls ==
           IF error_code = "ERR_ABORTED" THEN <<>>
           ELSE IF IsValid(error_page_url)
             THEN <<EngineCall("LoadAlternateHTMLErrorPage", v, error_page_url, replace)>>
             ELSE <<EngineCall("LoadAlternateHTMLString", v, failed_url, replace)>>
     IN  /\ sent' = One(DidFailMsg(v, is_main_frame, error_code, failed_url,
                                   show_repost_interstitial))
         /\ engine' = calls
  /\ UNCHANGED <<viewVars, pageVars, targetVars, popupVars, requestVars, findVars,
                 loadVars, miscVars, tasks, mainVars>>

\* RenderView::DidReceiveProvisionalLoadServerRedirect.  has_data_source is
\* whether the main frame has a provisional data source, num_redirects the
\* length of its redirect chain.
DidReceiveProvisionalLoadServerRedirect(v, is_main_frame, has_data_source, num_redirects) ==
  /\ Running(v)
  /\ call' = Call("DidReceiveProvisionalLoadServerRedirect", v, EmptyGURL, num_redirects)
  /\ IF is_main_frame /\ ~has_data_source
       THEN \* NOTREACHED(); return.  A build with assertions ends the process
            \* there, a build without them returns.
            /\ dcheck_failed' = TRUE
            /\ process' \in {"running", "aborted"}
            /\ sent' = <<>>
       ELSE /\ dcheck_failed' = dcheck_failed
            /\ process' = process
            /\ IF is_main_frame /\ num_redirects >= 2
                 THEN sent' = One(PageMsg("ViewHostMsg_DidRedirectProvisionalLoad",
                                          v, page_id_[v]))
                 ELSE sent' = <<>>
  /\ engine' = <<>>
  /\ UNCHANGED <<alternate_error_page_url_, last_encoding_name_, delegateVars, viewVars, pageVars,
                 targetVars, popupVars, requestVars, findVars, loadVars, tasks,
                 main_pc, cmdline, main_calls>>

\* ------------------------------------------------------------------ popups

\* RenderView::Create with RenderView::Init for a view opened by `opener`
\* with the opener's counter: the new view's routing id is the next unused one.
CreateFromOpener(opener, w) ==
  /\ views' = views \cup {w}
  /\ num_created' = w
  /\ opener_id_' = [opener_id_ EXCEPT ![w] = opener]
  /\ did_show_' = [did_show_ EXCEPT ![w] = FALSE]
  /\ shared_popup_counter_' =
       [shared_popup_counter_ EXCEPT ![w] = shared_popup_counter_[opener]]
  /\ counter_data' = [counter_data EXCEPT ![shared_popup_counter_[opener]] = @ + 1]
  /\ decrement_shared_popup_at_destruction_' =
       [decrement_shared_popup_at_destruction_ EXCEPT ![w] = TRUE]
  /\ alternate_error_page_url_' =
       [alternate_error_page_url_ EXCEPT ![w] = alternate_error_page_url_[opener]]
  /\ UNCHANGED num_counters

\* RenderView::CreateWebView.  The synchronous ViewHostMsg_CreateWindow goes
\* out through the render thread; granted is whether the browser's reply
\* carries a routing id.
CreateWebView(v, user_gesture, granted) ==
  /\ Running(v)
  /\ call' = Call("CreateWebView", v, EmptyGURL, IF granted THEN 1 ELSE 0)
  /\ IF counter_data[shared_popup_counter_[v]] > kMaximumNumberOfUnacknowledgedPopups
       THEN UNCHANGED <<viewVars, popupVars, alternate_error_page_url_>>
       ELSE /\ popup_notification_visible_' =
                 [popup_notification_visible_ EXCEPT ![v] = TRUE]
            /\ create_window_requests < MaxRequests
            /\ create_window_requests' = create_window_requests + 1
            /\ IF granted
                 THEN /\ num_created < MaxViews
                      /\ CreateFromOpener(v, num_created + 1)
                 ELSE UNCHANGED <<viewVars, shared_popup_counter_, counter_data,
                                  decrement_shared_popup_at_destruction_, num_counters,
                                  alternate_error_page_url_>>
  /\ UNCHANGED <<last_encoding_name_, dcheck_failed, delegateVars>>
  /\ sent' = <<>>
  /\ engine' = <<>>
  /\ UNCHANGED <<pageVars, targetVars, requestVars, findVars, loadVars, tasks,
                 mainVars>>

\* RenderView::Create with RenderView::Init for a view the browser makes
\* without an opener and without a counter.
CreateRenderView ==
  /\ process = "running"
  /\ num_created < MaxViews
  /\ num_counters < MaxCounters
  /\ call' = Call("Create", num_created + 1, EmptyGURL, 0)
  /\ views' = views \cup {num_created + 1}
  /\ num_created' = num_created + 1
  /\ opener_id_' = [opener_id_ EXCEPT ![num_created + 1] = MSG_ROUTING_NONE]
  /\ did_show_' = [did_show_ EXCEPT ![num_created + 1] = TRUE]
  /\ num_counters' = num_counters + 1
  /\ shared_popup_counter_' =
       [shared_popup_counter_ EXCEPT ![num_created + 1] = num_counters + 1]
  /\ counter_data' = [counter_data EXCEPT ![num_counters + 1] = 0]
  /\ decrement_shared_popup_at_destruction_' =
       [decrement_shared_popup_at_destruction_ EXCEPT ![num_created + 1] = FALSE]
  /\ UNCHANGED <<popup_notification_visible_, create_window_requests>>
  /\ sent' = <<>>
  /\ engine' = <<>>
  /\ UNCHANGED <<pageVars, targetVars, requestVars, findVars, loadVars, miscVars,
                 tasks, mainVars>>

\* RenderView::~RenderView, run when the last reference to the view goes.
\* The method factory revokes the view's delayed tasks.
DestroyRenderView(v) ==
  /\ Running(v)
  /\ call' = Call("~RenderView", v, EmptyGURL, 0)
  /\ views' = views \ {v}
  /\ counter_data' =
       IF decrement_shared_popup_at_destruction_[v]
         THEN [counter_data EXCEPT ![shared_popup_counter_[v]] = @ - 1]
         ELSE counter_data
  /\ tasks' = [t \in {u \in DOMAIN tasks : u.view # v} |-> tasks[t]]
  /\ UNCHANGED <<num_created, opener_id_, did_show_, popup_notification_visible_,
                 shared_popup_counter_, decrement_shared_popup_at_destruction_,
                 num_counters, create_window_requests>>
  /\ sent' = <<>>
  /\ engine' = <<>>
  /\ UNCHANGED <<pageVars, targetVars, requestVars, findVars, loadVars, miscVars,
                 mainVars>>

\* RenderView::OnDisassociateFromPopupCount
OnDisassociateFromPopupCount(v) ==
  /\ Running(v)
  /\ num_counters < MaxCounters
  /\ call' = Call("OnDisassociateFromPopupCount", v, EmptyGURL, 0)
  /\ counter_data' =
       [c \in AllCounters |->
          IF c = num_counters + 1 THEN 0
          ELSE IF c = shared_popup_counter_[v] /\ decrement_shared_popup_at_destruction_[v]
            THEN counter_data[c] - 1
          ELSE counter_data[c]]
  /\ num_counters' = num_counters + 1
  /\ shared_popup_counter_' = [shared_popup_counter_ EXCEPT ![v] = num_counters + 1]
  /\ decrement_shared_popup_at_destruction_' =
       [decrement_shared_popup_at_destruction_ EXCEPT ![v] = FALSE]
  /\ UNCHANGED <<popup_notification_visible_, create_window_requests>>
  /\ sent' = <<>>
  /\ engine' = <<>>
  /\ UNCHANGED <<viewVars, pageVars, targetVars, requestVars, findVars, loadVars,
                 miscVars, tasks, mainVars>>

\* RenderView::OnPopupNotificationVisiblityChanged
OnPopupNotificationVisiblityChanged(v, visible) ==
  /\ Running(v)
  /\ call' = Call("OnPopupNotificationVisiblityChanged", v, EmptyGURL,
                  IF visible THEN 1 ELSE 0)
  /\ popup_notification_visible_' = [popup_notification_visible_ EXCEPT ![v] = visible]
  /\ UNCHANGED <<shared_popup_counter_, decrement_shared_popup_at_destruction_,
                 counter_data, num_counters, create_window_requests>>
  /\ sent' = <<>>
  /\ engine' = <<>>
  /\ UNCHANGED <<viewVars, pageVars, targetVars, requestVars, findVars, loadVars,
                 miscVars, tasks, mainVars>>

\* CloseWidgetSoon that always passes the call to RenderWidget.
CloseWidgetSoon_Always(v) ==
  /\ Running(v)
  /\ call' = Call("CloseWidgetSoon", v, EmptyGURL, 0)
  /\ engine' = One(EngineCall("RenderWidget::CloseWidgetSoon", v, EmptyGURL, FALSE))
  /\ sent' = <<>>
  /\ UNCHANGED <<viewVars, pageVars, targetVars, popupVars, requestVars, findVars,
                 loadVars, miscVars, tasks, mainVars>>

\* RenderView::CloseWidgetSoon: the call is passed to RenderWidget unless the
\* popup notification is visible.
CloseWidgetSoon(v) ==
  /\ Running(v)
  /\ call' = Call("CloseWidgetSoon", v, EmptyGURL, 0)
  /\ IF popup_notification_visible_[v] = FALSE
       THEN engine' = One(EngineCall("RenderWidget::CloseWidgetSoon", v, EmptyGURL, FALSE))
       ELSE engine' = <<>>
  /\ sent' = <<>>
  /\ UNCHANGED <<viewVars, pageVars, targetVars, popupVars, requestVars, findVars,
                 loadVars, miscVars, tasks, mainVars>>

\* ------------------------------------------------------- plain forwarders

\* RenderView::JSOutOfMemory
JSOutOfMemory(v) ==
  /\ Running(v)
  /\ call' = Call("JSOutOfMemory", v, EmptyGURL, 0)
  /\ sent' = One(PlainMsg("ViewHostMsg_JSOutOfMemory", v))
  /\ engine' = <<>>
  /\ UNCHANGED <<viewVars, pageVars, targetVars, popupVars, requestVars, findVars,
                 loadVars, miscVars, tasks, mainVars>>

\* RenderView::OnStop
OnStop(v) ==
  /\ Running(v)
  /\ call' = Call("OnStop", v, EmptyGURL, 0)
  /\ engine' = One(EngineCall("StopLoading", v, EmptyGURL, FALSE))
  /\ sent' = <<>>
  /\ UNCHANGED <<viewVars, pageVars, targetVars, popupVars, requestVars, findVars,
                 loadVars, miscVars, tasks, mainVars>>

\* ------------------------------------------------------- test shell main()

rendererVars == <<viewVars, pageVars, targetVars, popupVars, requestVars, findVars,
                  loadVars, miscVars, tasks, sent, engine, call>>

\* main() appends the calls it makes to main_calls and moves to `pc`.
MainStep(calls, pc) ==
  /\ process = "running"
  /\ main_calls' = main_calls \o calls
  /\ main_pc' = pc
  /\ UNCHANGED <<cmdline, rendererVars>>

\* main(), up to the creation of the StatsTable.
MainInitialize ==
  /\ main_pc = "start"
  /\ process' = process
  /\ MainStep(<<"TestShell::InitLogging", "TestShell::InitializeTestShell",
                "TestShell::RegisterWindowClass", "StatsTable::set_current(table)">>,
              "create_window")

\* main(): TestShell::CreateNewWindow, which may fail.
MainCreateNewWindow(created) ==
  /\ main_pc = "create_window"
  /\ process' = process
  /\ MainStep(<<"TestShell::CreateNewWindow">>, IF created THEN "window" ELSE "shutdown")

\* main(): the window is shown, and event recording or playback started.
MainShowWindow ==
  /\ main_pc = "window"
  /\ process' = process
  /\ MainStep(<<"TestShell::Show">>
              \o (IF (cmdline.record_mode \/ cmdline.playback_mode) /\ ~cmdline.no_events
                    THEN (IF cmdline.record_mode
                            THEN <<"EventRecorder::StartRecording">> ELSE <<>>)
                         \o (IF cmdline.playback_mode
                               THEN <<"EventRecorder::StartPlayback">> ELSE <<>>)
                    ELSE <<>>),
              "run")

\* main(): the uri is empty only in layout-test mode without a loose value
\* (interactive mode defaults to a home page).
UriEmpty == cmdline.layout_tests /\ ~cmdline.loose_value

\* main() that leaves through exit(1) whenever --dump-pixels is given.
MainRun_ExitOnDumpPixels ==
  /\ main_pc = "run"
  /\ IF cmdline.layout_tests
       THEN IF cmdline.dump_pixels
              THEN /\ process' = "exited"
                   /\ MainStep(<<"exit(1)">>, "exited")
              ELSE /\ process' = process
                   /\ IF UriEmpty
                        THEN MainStep(<<>>, "stdin")
                        ELSE MainStep(<<"TestShell::RunFileTest">>, "gc")
       ELSE /\ process' = process
            /\ MainStep(<<"MessageLoop::Run">>, "flush")

\* main(): layout-test mode sets up the test parameters and runs the test
\* named on the command line, or starts to read tests from stdin; --dump-pixels
\* without a file name ends the process with exit(1).  Interactive mode runs
\* the message loop until it quits.
MainRun ==
  /\ main_pc = "run"
  /\ IF cmdline.layout_tests
       THEN IF cmdline.dump_pixels /\ cmdline.pixel_file_name_empty
              THEN /\ process' = "exited"
                   /\ MainStep(<<"exit(1)">>, "exited")
              ELSE /\ process' = process
                   /\ IF UriEmpty
                        THEN MainStep(<<>>, "stdin")
                        ELSE MainStep(<<"TestShell::RunFileTest">>, "gc")
       ELSE /\ process' = process
            /\ MainStep(<<"MessageLoop::Run">>, "flush")

\* main(): one round of the loop over stdin.  line is what fgets gives: end of
\* file, a blank line, or a test that RunFileTest runs with the given result.
MainReadTest(line) ==
  /\ main_pc = "stdin"
  /\ process' = process
  /\ Len(SelectSeq(main_calls, LAMBDA c : c = "TestShell::RunFileTest")) < MaxTests
       \/ line \in {"eof", "blank"}
  /\ CASE line = "eof" -> MainStep(<<>>, "gc")
       [] line = "blank" -> MainStep(<<>>, "stdin")
       [] line = "test_ok" -> MainStep(<<"TestShell::RunFileTest">>, "stdin")
       [] line = "test_failed" -> MainStep(<<"TestShell::RunFileTest">>, "gc")

\* main(): after the layout tests the shell collects garbage and is deleted.
MainDeleteShell ==
  /\ main_pc = "gc"
  /\ process' = process
  /\ MainStep(<<"TestShell::CallJSGC", "TestShell::CallJSGC", "delete shell">>, "flush")

\* main(): remaining messages are flushed and recording or playback stopped.
MainFlush ==
  /\ main_pc = "flush"
  /\ process' = process
  /\ MainStep(<<"MessageLoop::Quit", "MessageLoop::Run">>
              \o (IF cmdline.record_mode THEN <<"EventRecorder::StopRecording">> ELSE <<>>)
              \o (IF cmdline.playback_mode THEN <<"EventRecorder::StopPlayback">> ELSE <<>>),
              "shutdown")

\* main(): TestShell::ShutdownTestShell
MainShutdownTestShell ==
  /\ main_pc = "shutdown"
  /\ process' = process
  /\ MainStep(<<"TestShell::ShutdownTestShell">>, "cleanup")

\* main() that does not clean up logging.
MainCleanupLogging_Skipped ==
  /\ main_pc = "cleanup"
  /\ process' = process
  /\ MainStep(<<>>, "stats")

\* main(): TestShell::CleanupLogging
MainCleanupLogging ==
  /\ main_pc = "cleanup"
  /\ process' = process
  /\ MainStep(<<"TestShell::CleanupLogging">>, "stats")

\* main(): the StatsTable is cleared and deleted, and main returns 0.
MainReturn ==
  /\ main_pc = "stats"
  /\ process' = "returned"
  /\ MainStep(<<"StatsTable::set_current(NULL)", "delete table">>, "returned")

\* The steps of the test shell's main().
NextMain ==
  \/ MainInitialize
  \/ \E created \in BOOLEAN : MainCreateNewWindow(created)
  \/ MainShowWindow
  \/ MainRun
  \/ \E line \in {"eof", "blank", "test_ok", "test_failed"} : MainReadTest(line)
  \/ MainDeleteShell
  \/ MainFlush
  \/ MainShutdownTestShell
  \/ MainCleanupLogging
  \/ MainReturn

SpecMain == InitTestShell /\ [][NextMain]_vars

\* ------------------------------------------------------------ specifications

\* The target-URL protocol of one view.
NextTargetURL ==
  \/ \E v \in AllViews, url \in TargetURLs : UpdateTargetURL(v, url)
  \/ \E v \in AllViews : OnUpdateTargetURLAck(v)

SpecTargetURL == InitRenderer /\ [][NextTargetURL]_vars

\* Forwarding: two handlers that keep no state, and the target-URL protocol.
NextForwarding ==
  \/ \E v \in AllViews : JSOutOfMemory(v)
  \/ \E v \in AllViews : OnStop(v)
  \/ \E v \in AllViews, url \in TargetURLs : UpdateTargetURL(v, url)
  \/ \E v \in AllViews : OnUpdateTargetURLAck(v)

SpecForwarding == InitRenderer /\ [][NextForwarding]_vars

\* Error paths: the test shell's main() on any command line, and in a
\* renderer the handlers whose host calls fail or whose input is invalid.
InitErrors == InitRenderer \/ InitTestShell

NextErrors ==
  \/ NextMain
  \/ \E v \in AllViews, is_main_frame \in BOOLEAN, has_data_source \in BOOLEAN,
        num_redirects \in 0..2 :
       DidReceiveProvisionalLoadServerRedirect(v, is_main_frame, has_data_source,
                                               num_redirects)
  \/ \E v \in AllViews, is_main_frame \in BOOLEAN, error_code \in ErrorCodes,
        failed_url \in FailedURLs, is_post \in BOOLEAN :
       DidFailProvisionalLoadWithError(v, is_main_frame, error_code, failed_url, is_post)
  \/ \E v \in AllViews, fill_ok \in BOOLEAN : OnUploadFileRequest(v, fill_ok)

SpecErrors == InitErrors /\ [][NextErrors]_vars

\* What the engine reports of the main frame in the runs where the capture
\* itself is not the subject.
PlainFrames ==
  {f \in FrameStates :
     /\ f.exists /\ ~f.view_source /\ ~f.unreachable /\ ~f.size_empty /\ f.image_ok
     /\ f.url = URL("http", "a")
     /\ f.text.size = 10}

\* Page ids: up to MaxNavViews views that navigate and commit, while the
\* browser reserves ranges of page ids.
NextPageId ==
  \/ num_created < MaxNavViews /\ CreateRenderView
  \/ \E n \in 1..MaxPageId : SetNextPageID(n)
  \/ \E v \in AllViews, size_of_range \in 0..MaxRange : OnReservePageIDRange(v, size_of_range)
  \/ \E v \in AllViews : OnNavigate(v, URL("http", "a"), 1, "TYPED")
  \/ \E v \in AllViews, is_main_frame \in BOOLEAN, is_new_navigation \in BOOLEAN :
       DidCommitLoadForFrame(v, is_main_frame, is_new_navigation, FALSE,
                             TRUE, FALSE, "utf-8")
  \/ \E task \in DOMAIN tasks, frame \in PlainFrames : CapturePageInfo(task, frame)

SpecPageId == InitRenderer /\ [][NextPageId]_vars

\* Find in page: match counts reported by the engine and the browser's ACKs.
NextFind ==
  \/ \E v \in AllViews, count \in 0..1, request_id \in 1..2, final_update \in BOOLEAN :
       ReportFindInPageMatchCount(v, count, request_id, final_update)
  \/ \E v \in AllViews : OnFindReplyAck(v)

SpecFind == InitRenderer /\ [][NextFind]_vars

\* Loading: the engine's start and stop callbacks in up to MaxNavViews views,
\* file uploads that wait for the page, and the captures DidStopLoading posts.
NextLoading ==
  \/ num_created < MaxNavViews /\ CreateRenderView
  \/ \E v \in AllViews : DidStartLoading(v)
  \/ \E v \in AllViews, favicon_url \in {EmptyGURL, URL("http", "a")},
        osdd_url \in {EmptyGURL, URL("http", "a")} :
       DidStopLoading(v, favicon_url, osdd_url)
  \/ \E v \in AllViews, fill_ok \in BOOLEAN : OnUploadFileRequest(v, fill_ok)
  \/ \E task \in DOMAIN tasks, frame \in PlainFrames : CapturePageInfo(task, frame)

SpecLoading == InitRenderer /\ [][NextLoading]_vars

\* Page capture: a view commits navigations and finishes loading, and the
\* delayed captures run against whatever the main frame then holds.
NextCapture ==
  \/ \E v \in AllViews, is_new_navigation \in BOOLEAN :
       DidCommitLoadForFrame(v, TRUE, is_new_navigation, FALSE, TRUE, FALSE, "utf-8")
  \/ \E v \in AllViews : DidStartLoading(v)
  \/ \E v \in AllViews : DidStopLoading(v, EmptyGURL, EmptyGURL)
  \/ \E task \in DOMAIN tasks, frame \in FrameStates : CapturePageInfo(task, frame)

SpecCapture == InitRenderer /\ [][NextCapture]_vars

\* Error pages: the browser sets the alternate error page URL and navigates
\* the view, and provisional loads fail.
NextErrorPage ==
  \/ \E v \in AllViews, url \in AltErrorPageURLs : OnSetAltErrorPageURL(v, url)
  \/ \E v \in AllViews, url \in PageURLs, page_id \in {-1, 1} :
       OnNavigate(v, url, page_id, "TYPED")
  \/ \E v \in AllViews, is_main_frame \in BOOLEAN, error_code \in ErrorCodes,
        failed_url \in FailedURLs, is_post \in BOOLEAN :
       DidFailProvisionalLoadWithError(v, is_main_frame, error_code, failed_url, is_post)

SpecErrorPage == InitRenderer /\ [][NextErrorPage]_vars

\* The popups still counted by counter object c: the live views that share it
\* and will decrement it when they go.
PopupsOf(c) ==
  {v \in views : shared_popup_counter_[v] = c /\ decrement_shared_popup_at_destruction_[v]}

\* The views created so far that were destroyed or are off their opener's
\* counter, not counting the first view, which never was on one.
Detached ==
  Cardinality({v \in 1..num_created :
                 v \notin views \/ ~decrement_shared_popup_at_destruction_[v]}) - 1

\* Popups: the first MaxOpeners views open windows, which the browser
\* grants, and up to MaxDetached views are destroyed or disassociated from
\* the popup count.
NextPopupCount ==
  \/ \E v \in 1..MaxOpeners : CreateWebView(v, TRUE, TRUE)
  \/ \E v \in AllViews : Detached < MaxDetached /\ v > 1 /\ DestroyRenderView(v)
  \/ \E v \in AllViews : Detached < MaxDetached /\ OnDisassociateFromPopupCount(v)

SpecPopupCount == InitRenderer /\ [][NextPopupCount]_vars

\* Closing: views open windows, which the browser grants or not, the browser
\* reports the popup notification shown or hidden, and script calls
\* window.close().
NextPopupClose ==
  \/ \E v \in AllViews, user_gesture \in BOOLEAN, granted \in BOOLEAN :
       /\ granted => num_created < MaxNavViews
       /\ CreateWebView(v, user_gesture, granted)
  \/ \E v \in AllViews, visible \in BOOLEAN : OnPopupNotificationVisiblityChanged(v, visible)
  \/ \E v \in AllViews : CloseWidgetSoon(v)

SpecPopupClose == InitRenderer /\ [][NextPopupClose]_vars

\* ------------------------------------------------------------------ showing

ShowViewMsg(rid, opener, disposition) ==
  [type |-> "ViewHostMsg_ShowView", routing_id |-> rid, opener_id |-> opener,
   disposition |-> disposition]

\* Show without the early return on did_show_.
Show_Unchecked(v, disposition) ==
  /\ Running(v)
  /\ show_calls[v] < MaxShowCalls
  /\ show_calls' = [show_calls EXCEPT ![v] = @ + 1]
  /\ call' = Call("Show", v, EmptyGURL, 0)
  /\ did_show_' = [did_show_ EXCEPT ![v] = TRUE]
  /\ sent' = One(ShowViewMsg(v, opener_id_[v], disposition))
  /\ show_view_msgs' = [show_view_msgs EXCEPT ![v] = @ + 1]
  /\ engine' = <<>>
  /\ UNCHANGED <<views, num_created, opener_id_, pageVars, targetVars, popupVars,
                 requestVars, findVars, loadVars, alternate_error_page_url_,
                 last_encoding_name_, dcheck_failed, chooserVars, navVars, tasks, mainVars>>

\* RenderView::Show.  The two DCHECKs end the process in a build with
\* assertions and do nothing in a build without them.
Show(v, disposition) ==
  /\ Running(v)
  /\ show_calls[v] < MaxShowCalls
  /\ show_calls' = [show_calls EXCEPT ![v] = @ + 1]
  /\ call' = Call("Show", v, EmptyGURL, 0)
  /\ IF did_show_[v] \/ opener_id_[v] = MSG_ROUTING_NONE
       THEN /\ dcheck_failed' = TRUE
            /\ process' \in {"running", "aborted"}
       ELSE /\ dcheck_failed' = dcheck_failed
            /\ process' = process
  /\ IF process' = "aborted" \/ did_show_[v]
       THEN /\ sent' = <<>>
            /\ UNCHANGED <<did_show_, show_view_msgs>>
       ELSE /\ did_show_' = [did_show_ EXCEPT ![v] = TRUE]
            /\ sent' = One(ShowViewMsg(v, opener_id_[v], disposition))
            /\ show_view_msgs' = [show_view_msgs EXCEPT ![v] = @ + 1]
  /\ engine' = <<>>
  /\ UNCHANGED <<views, num_created, opener_id_, pageVars, targetVars, popupVars,
                 requestVars, findVars, loadVars, alternate_error_page_url_,
                 last_encoding_name_, chooserVars, navVars, tasks, main_pc, cmdline,
                 main_calls>>

\* Showing: the browser creates views without an opener, views open
\* windows, and the engine asks for each view to be shown, any number of
\* times and with any disposition.
NextShow ==
  \/ num_created < MaxShownViews /\ CreateRenderView
  \/ \E v \in AllViews, user_gesture \in BOOLEAN :
       num_created < MaxShownViews /\ CreateWebView(v, user_gesture, TRUE)
  \/ \E v \in AllViews, disposition \in {"NEW_FOREGROUND_TAB", "NEW_POPUP"} :
       Show(v, disposition)

SpecShow == InitRenderer /\ [][NextShow]_vars

\* ------------------------------------------------------------- file chooser

\* A WebFileChooserCallback the engine handed to `view`: how often its
\* OnFileChoose ran and whether it has been deleted.
ChooserCallback(view, deleted) == [view |-> view, invoked |-> 0, deleted |-> deleted]

\* RunFileChooser that replaces a pending callback instead of dropping the
\* new one.
RunFileChooser_Replacing(v, multi_select) ==
  /\ Running(v)
  /\ Len(chooser_callbacks) < MaxChoosers
  /\ call' = Call("RunFileChooser", v, EmptyGURL, Len(chooser_callbacks) + 1)
  /\ file_chooser_' = [file_chooser_ EXCEPT ![v] = Len(chooser_callbacks) + 1]
  /\ chooser_callbacks' =
       Append([i \in DOMAIN chooser_callbacks |->
                 IF i = file_chooser_[v]
                   THEN [chooser_callbacks[i] EXCEPT !.deleted = TRUE]
                   ELSE chooser_callbacks[i]],
              ChooserCallback(v, FALSE))
  /\ sent' = One([type |-> "ViewHostMsg_RunFileChooser", routing_id |-> v,
                  multi_select |-> multi_select])
  /\ engine' = <<>>
  /\ UNCHANGED <<viewVars, pageVars, targetVars, popupVars, requestVars, findVars,
                 loadVars, alternate_error_page_url_, last_encoding_name_,
                 dcheck_failed, showVars, navVars, tasks, mainVars>>

\* RenderView::RunFileChooser.  The engine's callback object is the next one
\* of chooser_callbacks; call.n carries its index.
RunFileChooser(v, multi_select) ==
  /\ Running(v)
  /\ Len(chooser_callbacks) < MaxChoosers
  /\ call' = Call("RunFileChooser", v, EmptyGURL, Len(chooser_callbacks) + 1)
  /\ IF file_chooser_[v] # 0
       THEN /\ chooser_callbacks' = Append(chooser_callbacks, ChooserCallback(v, TRUE))
            /\ sent' = <<>>
            /\ UNCHANGED file_chooser_
       ELSE /\ file_chooser_' = [file_chooser_ EXCEPT ![v] = Len(chooser_callbacks) + 1]
            /\ chooser_callbacks' = Append(chooser_callbacks, ChooserCallback(v, FALSE))
            /\ sent' = One([type |-> "ViewHostMsg_RunFileChooser", routing_id |-> v,
                            multi_select |-> multi_select])
  /\ engine' = <<>>
  /\ UNCHANGED <<viewVars, pageVars, targetVars, popupVars, requestVars, findVars,
                 loadVars, alternate_error_page_url_, last_encoding_name_,
                 dcheck_failed, showVars, navVars, tasks, mainVars>>

\* RenderView::OnFileChooserResponse, with num_files file names.
OnFileChooserResponse(v, num_files) ==
  /\ Running(v)
  /\ call' = Call("OnFileChooserResponse", v, EmptyGURL, num_files)
  /\ IF file_chooser_[v] = 0
       THEN UNCHANGED <<file_chooser_, chooser_callbacks>>
       ELSE /\ chooser_callbacks' =
                 [chooser_callbacks EXCEPT ![file_chooser_[v]] =
                    [@ EXCEPT !.invoked = @ + 1, !.deleted = TRUE]]
            /\ file_chooser_' = [file_chooser_ EXCEPT ![v] = 0]
  /\ sent' = <<>>
  /\ engine' = <<>>
  /\ UNCHANGED <<viewVars, pageVars, targetVars, popupVars, requestVars, findVars,
                 loadVars, alternate_error_page_url_, last_encoding_name_,
                 dcheck_failed, showVars, navVars, tasks, mainVars>>

\* File choosing: the engine asks for file choosers in up to MaxNavViews
\* views, and the browser answers, whether or not a chooser is open.
NextFileChooser ==
  \/ num_created < MaxNavViews /\ CreateRenderView
  \/ \E v \in AllViews, multi_select \in BOOLEAN : RunFileChooser(v, multi_select)
  \/ \E v \in AllViews, num_files \in 0..1 : OnFileChooserResponse(v, num_files)

SpecFileChooser == InitRenderer /\ [][NextFileChooser]_vars

\* -------------------------------------------------------- navigation policy

\* A history://go/<file> URL; the file name is a string of characters.
HistoryURL(file) == [scheme |-> "history", host |-> "go", query |-> <<>>, file |-> file]

\* GURL::ExtractFileName
ExtractFileName(url) == IF "file" \in DOMAIN url THEN url.file ELSE <<>>

\* StringPrintf("%d", n): the decimal digits of n, after a minus sign when
\* n is negative.
IntToString(n) ==
  LET RECURSIVE NatToString(_)
      NatToString(k) ==
        IF k < 10 THEN <<SubSeq(<<"0", "1", "2", "3", "4", "5", "6", "7", "8", "9">>,
                                k + 1, k + 1)[1]>>
        ELSE NatToString(k \div 10) \o NatToString(k % 10)
  IN  IF n < 0 THEN <<"-">> \o NatToString(-n) ELSE NatToString(n)

\* StringToInt: succeeds on an optional minus sign followed by one or more
\* decimal digits (and a value that fits an int, which every string of the
\* model does), and yields the number they denote.
StringToInt(str) ==
  LET digits == <<"0", "1", "2", "3", "4", "5", "6", "7", "8", "9">>
      value(c) == CHOOSE d \in 0..9 : digits[d + 1] = c
      negative == Len(str) > 0 /\ str[1] = "-"
      body == IF negative THEN Tail(str) ELSE str
      ok == Len(body) > 0 /\ \A i \in 1..Len(body) : \E d \in 0..9 : digits[d + 1] = body[i]
      RECURSIVE ParseNat(_)
      ParseNat(s) == IF s = <<>> THEN 0
                     ELSE 10 * ParseNat(SubSeq(s, 1, Len(s) - 1)) + value(s[Len(s)])
  IN  [ok |-> ok,
       value |-> IF ~ok THEN 0 ELSE IF negative THEN 0 - ParseNat(body) ELSE ParseNat(body)]

\* BindingsPolicy::is_dom_ui_enabled that never finds the flag.
is_dom_ui_enabled_Never(bindings) == FALSE

\* BindingsPolicy::is_dom_ui_enabled
is_dom_ui_enabled(bindings) == "DOM_UI" \in bindings

\* RenderView::OnAllowBindings: enabled_bindings_ |= flags.
OnAllowBindings(v, enabled_bindings_flags) ==
  /\ Running(v)
  /\ call' = Call("OnAllowBindings", v, EmptyGURL, 0)
  /\ enabled_bindings_' = [enabled_bindings_ EXCEPT ![v] = @ \cup enabled_bindings_flags]
  /\ sent' = <<>>
  /\ engine' = <<>>
  /\ UNCHANGED <<viewVars, pageVars, targetVars, popupVars, requestVars, findVars,
                 loadVars, alternate_error_page_url_, last_encoding_name_,
                 dcheck_failed, showVars, chooserVars, in_view_source_mode,
                 history_back_list_count_, history_forward_list_count_,
                 history_navigation_item_, policy, tasks, mainVars>>

\* RenderView::OnEnableViewSourceMode, in a view that has its web view and
\* main frame.
OnEnableViewSourceMode(v) ==
  /\ Running(v)
  /\ call' = Call("OnEnableViewSourceMode", v, EmptyGURL, 0)
  /\ in_view_source_mode' = [in_view_source_mode EXCEPT ![v] = TRUE]
  /\ sent' = <<>>
  /\ engine' = <<>>
  /\ UNCHANGED <<viewVars, pageVars, targetVars, popupVars, requestVars, findVars,
                 loadVars, alternate_error_page_url_, last_encoding_name_,
                 dcheck_failed, showVars, chooserVars, enabled_bindings_,
                 history_back_list_count_, history_forward_list_count_,
                 history_navigation_item_, policy, tasks, mainVars>>

\* RenderView::GetHistoryEntryAtOffset: the fake item history://go/OFFSET.
GetHistoryEntryAtOffset(v, offset) ==
  /\ Running(v)
  /\ call' = Call("GetHistoryEntryAtOffset", v, EmptyGURL, offset)
  /\ history_navigation_item_' =
       [history_navigation_item_ EXCEPT
          ![v] = [url |-> HistoryURL(IntToString(offset)), offset |-> offset]]
  /\ sent' = <<>>
  /\ engine' = <<>>
  /\ UNCHANGED <<viewVars, pageVars, targetVars, popupVars, requestVars, findVars,
                 loadVars, alternate_error_page_url_, last_encoding_name_,
                 dcheck_failed, showVars, chooserVars, enabled_bindings_,
                 in_view_source_mode, history_back_list_count_,
                 history_forward_list_count_, policy, tasks, mainVars>>

\* RenderView::GoToEntryAtOffset, as the navigation policy calls it.
GoToEntryAtOffset(v, offset) ==
  /\ history_back_list_count_' = [history_back_list_count_ EXCEPT ![v] = @ + offset]
  /\ history_forward_list_count_' = [history_forward_list_count_ EXCEPT ![v] = @ - offset]
  /\ sent' = One([type |-> "ViewHostMsg_GoToEntryAtOffset", routing_id |-> v,
                  offset |-> offset])

\* RenderView::DispositionForNavigationAction.  can_fork is the part of
\* is_fork the engine decides: the frame shows about:blank, has no opener,
\* and the navigation type is "other".  A frame is the main frame exactly
\* when it has no parent.
DispositionForNavigationAction(v, is_main_frame, has_extra_data, url, disposition, can_fork) ==
  /\ Running(v)
  /\ call' = Call("DispositionForNavigationAction", v, url, 0)
  /\ LET unsolicited == /\ disposition = "CURRENT_TAB"
                        /\ ~SchemeIs(url, "about")
                        /\ is_main_frame
                        /\ ~has_extra_data
         to_browser == /\ unsolicited
                       /\ \/ is_dom_ui_enabled(enabled_bindings_[v])
                          \/ in_view_source_mode[v]
                          \/ SchemeIs(url, "view-source")
         offset == StringToInt(ExtractFileName(url))
         go == /\ unsolicited
               /\ ~to_browser
               /\ SchemeIs(url, "history")
               /\ offset.ok
         is_fork == /\ can_fork
                    /\ history_back_list_count_[v] < 1
                    /\ history_forward_list_count_[v] < 1
                    /\ is_main_frame
                    /\ ~has_extra_data
                    /\ disposition = "CURRENT_TAB"
         OpenURL == One([type |-> "ViewHostMsg_OpenURL", routing_id |-> v, url |-> url,
                         disposition |-> disposition])
         answer(result) ==
           policy' = [is_main_frame |-> is_main_frame, has_extra_data |-> has_extra_data,
                      disposition |-> disposition, result |-> result]
     IN  IF to_browser
           THEN /\ sent' = OpenURL
                /\ answer("IGNORE_ACTION")
                /\ UNCHANGED <<history_back_list_count_, history_forward_list_count_>>
         ELSE IF go
           THEN /\ history_back_list_count_[v] + offset.value \in (0 - MaxHistory)..MaxHistory
                /\ GoToEntryAtOffset(v, offset.value)
                /\ answer("IGNORE_ACTION")
         ELSE IF is_fork
           THEN /\ sent' = OpenURL
                /\ answer("IGNORE_ACTION")
                /\ UNCHANGED <<history_back_list_count_, history_forward_list_count_>>
         ELSE /\ sent' = <<>>
              /\ answer(disposition)
              /\ UNCHANGED <<history_back_list_count_, history_forward_list_count_>>
  /\ engine' = <<>>
  /\ UNCHANGED <<viewVars, pageVars, targetVars, popupVars, requestVars, findVars,
                 loadVars, alternate_error_page_url_, last_encoding_name_,
                 dcheck_failed, showVars, chooserVars, enabled_bindings_,
                 in_view_source_mode, history_navigation_item_, tasks, mainVars>>

\* The URLs the engine asks a view to navigate to: pages, about:blank, a
\* view-source: URL, a history: URL that names no number, and the fake
\* history item the view made last.
NavigationURLs(v) ==
  {URL("http", "a"), URL("about", "blank"), URL("view-source", "a"), HistoryURL(<<"x">>)}
    \cup {u \in {history_navigation_item_[v].url} : IsValid(u)}

\* Navigation policy: the browser allows bindings and turns on view-source
\* mode, script asks for history entries, and the engine asks what to do
\* with each navigation.
NextNavigationPolicy ==
  \/ \E v \in views, flags \in {{"DOM_UI"}} : OnAllowBindings(v, flags)
  \/ \E v \in views : OnEnableViewSourceMode(v)
  \/ \E v \in views, offset \in {0 - MaxOffset, -1, 1} :
       GetHistoryEntryAtOffset(v, offset)
  \/ \E v \in views, is_main_frame \in BOOLEAN, has_extra_data \in BOOLEAN,
        disposition \in {"CURRENT_TAB", "NEW_FOREGROUND_TAB"}, can_fork \in BOOLEAN :
       \E url \in NavigationURLs(v) :
         DispositionForNavigationAction(v, is_main_frame, has_extra_data, url,
                                        disposition, can_fork)

SpecNavigationPolicy == InitRenderer /\ [][NextNavigationPolicy]_vars

\* ------------------------------------------------------ test shell dragging

\* GetCursorPositions that leaves the screen point as it was when
\* GetCursorPos fails.
GetCursorPositions_NoFallback(cursor_ok, cursor, uninitialized, origin) ==
  LET screen == IF cursor_ok THEN cursor ELSE uninitialized
  IN  [client |-> [x |-> screen.x - origin.x, y |-> screen.y - origin.y],
       screen |-> screen]

\* GetCursorPositions (drag_delegate.cc).  cursor is what GetCursorPos
\* stores when it succeeds, uninitialized what the caller's CPoint held
\* before, origin the screen position of the window's client area, which
\* ScreenToClient subtracts.
GetCursorPositions(cursor_ok, cursor, uninitialized, origin) ==
  LET screen == IF cursor_ok THEN cursor ELSE [x |-> 0, y |-> 0]
  IN  [client |-> [x |-> screen.x - origin.x, y |-> screen.y - origin.y],
       screen |-> screen]

\* TestDragDelegate::OnDragSourceDrop, entered as `notification`: by the
\* drop itself, or by OnDragSourceCancel.  The delegate's window takes
\* messages while main() runs a message loop.
OnDragSourceDrop(notification, cursor_ok, cursor, uninitialized, origin) ==
  /\ process = "running"
  /\ main_pc \in {"run", "stdin", "flush"}
  /\ call' = Call(notification, 0, EmptyGURL, IF cursor_ok THEN 1 ELSE 0)
  /\ LET at == GetCursorPositions(cursor_ok, cursor, uninitialized, origin)
     IN  engine' = One([name |-> "DragSourceEndedAt", client |-> at.client,
                        screen |-> at.screen])
  /\ sent' = <<>>
  /\ UNCHANGED <<viewVars, pageVars, targetVars, popupVars, requestVars, findVars,
                 loadVars, miscVars, tasks, mainVars>>

\* TestDragDelegate::OnDragSourceCancel
OnDragSourceCancel(cursor_ok, cursor, uninitialized, origin) ==
  OnDragSourceDrop("OnDragSourceCancel", cursor_ok, cursor, uninitialized, origin)

\* TestDragDelegate::OnDragSourceMove
OnDragSourceMove(cursor_ok, cursor, uninitialized, origin) ==
  /\ process = "running"
  /\ main_pc \in {"run", "stdin", "flush"}
  /\ call' = Call("OnDragSourceMove", 0, EmptyGURL, IF cursor_ok THEN 1 ELSE 0)
  /\ LET at == GetCursorPositions(cursor_ok, cursor, uninitialized, origin)
     IN  engine' = One([name |-> "DragSourceMovedTo", client |-> at.client,
                        screen |-> at.screen])
  /\ sent' = <<>>
  /\ UNCHANGED <<viewVars, pageVars, targetVars, popupVars, requestVars, findVars,
                 loadVars, miscVars, tasks, mainVars>>

\* Dragging in the test shell: main() runs, and the drag source is told of
\* moves, drops and cancels with the cursor anywhere, readable or not.
NextDrag ==
  \/ NextMain
  \/ \E cursor_ok \in BOOLEAN :
       \E cursor, uninitialized \in {[x |-> 1, y |-> 1], [x |-> MaxCoordinate, y |-> MaxCoordinate - 1]},
          origin \in {[x |-> 0, y |-> 0], [x |-> MaxCoordinate, y |-> MaxCoordinate - 1]} :
         \/ OnDragSourceCancel(cursor_ok, cursor, uninitialized, origin)
         \/ OnDragSourceDrop("OnDragSourceDrop", cursor_ok, cursor, uninitialized, origin)
         \/ OnDragSourceMove(cursor_ok, cursor, uninitialized, origin)

SpecDrag == InitTestShell /\ [][NextDrag]_vars

\* --------------------------------------------------------- history counters

\* DidAddHistoryItem without the exception for the start page.
DidAddHistoryItem_Always(v, committing) ==
  /\ Running(v)
  /\ call' = Call("DidAddHistoryItem", v, EmptyGURL, IF committing THEN 1 ELSE 0)
  /\ history_back_list_count_[v] < MaxHistory
  /\ history_back_list_count_' = [history_back_list_count_ EXCEPT ![v] = @ + 1]
  /\ history_forward_list_count_' = [history_forward_list_count_ EXCEPT ![v] = 0]
  /\ sent' = <<>>
  /\ engine' = <<>>
  /\ UNCHANGED <<viewVars, pageVars, targetVars, popupVars, requestVars, findVars,
                 loadVars, alternate_error_page_url_, last_encoding_name_,
                 dcheck_failed, showVars, chooserVars, enabled_bindings_,
                 in_view_source_mode, history_navigation_item_, policy, tasks,
                 mainVars>>

\* RenderView::DidAddHistoryItem.  The engine adds the item for a new
\* document of the main frame while it commits the provisional data source,
\* before DidCommitLoadForFrame: `committing` says the main frame's data
\* source is the one that was provisional.
DidAddHistoryItem(v, committing) ==
  /\ Running(v)
  /\ call' = Call("DidAddHistoryItem", v, EmptyGURL, IF committing THEN 1 ELSE 0)
  /\ LET extra_data == IF committing THEN prov_extra[v] ELSE ds_extra[v]
     IN  IF extra_data.present /\ extra_data.transition_type = "START_PAGE"
           THEN UNCHANGED <<history_back_list_count_, history_forward_list_count_>>
           ELSE /\ history_back_list_count_[v] < MaxHistory
                /\ history_back_list_count_' =
                     [history_back_list_count_ EXCEPT ![v] = @ + 1]
                /\ history_forward_list_count_' =
                     [history_forward_list_count_ EXCEPT ![v] = 0]
  /\ sent' = <<>>
  /\ engine' = <<>>
  /\ UNCHANGED <<viewVars, pageVars, targetVars, popupVars, requestVars, findVars,
                 loadVars, alternate_error_page_url_, last_encoding_name_,
                 dcheck_failed, showVars, chooserVars, enabled_bindings_,
                 in_view_source_mode, history_navigation_item_, policy, tasks,
                 mainVars>>

\* RenderView::OnUpdateBackForwardListCount
OnUpdateBackForwardListCount(v, back_list_count, forward_list_count) ==
  /\ Running(v)
  /\ call' = Call("OnUpdateBackForwardListCount", v, EmptyGURL, back_list_count)
  /\ history_back_list_count_' =
       [history_back_list_count_ EXCEPT ![v] = back_list_count]
  /\ history_forward_list_count_' =
       [history_forward_list_count_ EXCEPT ![v] = forward_list_count]
  /\ sent' = <<>>
  /\ engine' = <<>>
  /\ UNCHANGED <<viewVars, pageVars, targetVars, popupVars, requestVars, findVars,
                 loadVars, alternate_error_page_url_, last_encoding_name_,
                 dcheck_failed, showVars, chooserVars, enabled_bindings_,
                 in_view_source_mode, history_navigation_item_, policy, tasks,
                 mainVars>>

\* History counters: the browser navigates a view, to the start page or to a
\* typed URL, and reports list counts; the engine adds history items and
\* commits; script goes back and forward through the fake history item.
NextHistory ==
  \/ \E v \in views, transition \in {"TYPED", "START_PAGE"} :
       OnNavigate(v, URL("http", "a"), 1, transition)
  \/ \E v \in views, committing \in BOOLEAN :
       history_back_list_count_[v] < MaxBackList /\ DidAddHistoryItem(v, committing)
  \/ \E v \in views, is_main_frame \in BOOLEAN :
       DidCommitLoadForFrame(v, is_main_frame, FALSE, FALSE, TRUE, FALSE, "utf-8")
  \/ \E v \in views, back_list_count \in {0, 2}, forward_list_count \in {0, 1} :
       OnUpdateBackForwardListCount(v, back_list_count, forward_list_count)
  \/ \E v \in views, offset \in {-1, 2} : GetHistoryEntryAtOffset(v, offset)
  \/ \E v \in views :
       /\ IsValid(history_navigation_item_[v].url)
       /\ history_back_list_count_[v] + history_navigation_item_[v].offset
            \in (0 - MaxBackList)..MaxBackList
       /\ DispositionForNavigationAction(v, TRUE, FALSE, history_navigation_item_[v].url,
                                         "CURRENT_TAB", FALSE)

SpecHistory == InitRenderer /\ [][NextHistory]_vars

\* ------------------------------------------------------------------ claims

\* C1 as stated: every callback is forwarded verbatim as an outbound message,
\* whatever happened before; for UpdateTargetURL, every call sends exactly
\* ViewHostMsg_UpdateTargetURL with its own URL.
C1_StatelessForwarder ==
  [][call'.op = "UpdateTargetURL" =>
       sent' = <<UpdateTargetURLMsg(call'.view, page_id_[call'.view], call'.url)>>]_vars

\* C1 amended: JSOutOfMemory and OnStop forward verbatim whatever happened
\* before, but UpdateTargetURL depends on the protocol state RenderView keeps:
\* it sends its URL (and nothing else) exactly when the URL differs from
\* target_url_ and target_url_status_ is TARGET_NONE, and otherwise sends
\* nothing.
C1_ForwarderWithState ==
  [][/\ call'.op = "JSOutOfMemory" =>
          /\ sent' = <<PlainMsg("ViewHostMsg_JSOutOfMemory", call'.view)>>
          /\ engine' = <<>>
     /\ call'.op = "OnStop" =>
          /\ engine' = <<EngineCall("StopLoading", call'.view, EmptyGURL, FALSE)>>
          /\ sent' = <<>>
     /\ call'.op = "UpdateTargetURL" =>
          /\ engine' = <<>>
          /\ IF call'.url # target_url_[call'.view]
                /\ target_url_status_[call'.view] = TARGET_NONE
               THEN sent' = <<UpdateTargetURLMsg(call'.view, page_id_[call'.view],
                                                 call'.url)>>
               ELSE sent' = <<>>]_vars

\* C1 witness: an UpdateTargetURL callback with a new URL has sent nothing,
\* because an earlier callback's message is still in flight.
C1_Witness ==
  /\ call.op = "UpdateTargetURL"
  /\ target_url_status_[1] = TARGET_PENDING
  /\ pending_target_url_[1] = call.url
  /\ call.url # target_url_[1]
  /\ unacked_target_urls[1] = 1
  /\ sent = <<>>

\* C4 as stated: while a ViewHostMsg_UpdateTargetURL is in flight, an
\* UpdateTargetURL with a different URL sends nothing and saves the URL as
\* pending; the ACK sends exactly the latest pending URL.
C4_TargetURLFlowControl ==
  [][/\ (call'.op = "UpdateTargetURL"
           /\ unacked_target_urls[call'.view] > 0
           /\ call'.url # target_url_[call'.view]) =>
          /\ sent' = <<>>
          /\ pending_target_url_'[call'.view] = call'.url
     /\ (call'.op = "OnUpdateTargetURLAck"
           /\ target_url_status_[call'.view] = TARGET_PENDING) =>
          sent' = <<UpdateTargetURLMsg(call'.view, page_id_[call'.view],
                                       pending_target_url_[call'.view])>>]_vars

\* The calls main() makes from TestShell::ShutdownTestShell to its return.
ShutdownSequence ==
  <<"TestShell::ShutdownTestShell", "TestShell::CleanupLogging",
    "StatsTable::set_current(NULL)", "delete table">>

\* C2 as stated: no error path terminates the process.
C2_NoErrorPathTerminates == process # "exited"

\* C2 amended: one error path does terminate the process and skip the
\* shutdown sequence: in layout-test mode, --dump-pixels without a file name
\* makes main() call exit(1) after the window was created, and that is the
\* only way the process exits.  Every other path of main() returns after the
\* shutdown sequence, and in RenderView an assertion (NOTREACHED) either ends
\* the process or returns early without sending, and no handler calls exit.
C2_OnlyDumpPixelsExits ==
  /\ process = "exited" <=>
       /\ main_pc = "exited"
       /\ cmdline.layout_tests /\ cmdline.dump_pixels /\ cmdline.pixel_file_name_empty
  /\ process = "exited" =>
       /\ main_calls[Len(main_calls)] = "exit(1)"
       /\ \A i \in 1..Len(main_calls) : main_calls[i] # "TestShell::ShutdownTestShell"
  /\ (cmdline.layout_tests /\ cmdline.dump_pixels /\ cmdline.pixel_file_name_empty) =>
       main_pc \notin {"stdin", "gc", "flush"}
  /\ process = "returned" =>
       /\ Len(main_calls) >= Len(ShutdownSequence)
       /\ SubSeq(main_calls, Len(main_calls) - Len(ShutdownSequence) + 1, Len(main_calls))
            = ShutdownSequence
  /\ process = "aborted" =>
       /\ dcheck_failed
       /\ call.op = "DidReceiveProvisionalLoadServerRedirect"
       /\ sent = <<>>
  /\ main_pc = "none" => process \in {"running", "aborted"}

\* C2 witness: the test shell has created its window and then left through
\* exit(1), with the StatsTable still installed and nothing shut down.
C2_Witness ==
  /\ process = "exited"
  /\ \E i \in 1..Len(main_calls) : main_calls[i] = "TestShell::CreateNewWindow"
  /\ \A i \in 1..Len(main_calls) : main_calls[i] # "StatsTable::set_current(NULL)"

\* C3: page ids are unique in the renderer: the page ids that new-navigation
\* commits assign, in the order assigned and whichever views commit, are
\* strictly increasing (so no two are equal), however OnReservePageIDRange
\* calls interleave.
C3_PageIdsIncrease ==
  /\ \A i, j \in 1..Len(assigned_page_ids) :
       i < j => assigned_page_ids[i] < assigned_page_ids[j]
  /\ \A i \in 1..Len(assigned_page_ids) : assigned_page_ids[i] < next_page_id_

\* C3 witness: two views have each committed a new navigation, with a
\* reserved range between the two page ids.
C3_Witness ==
  /\ Len(assigned_page_ids) >= 2
  /\ page_id_[1] = assigned_page_ids[1]
  /\ page_id_[2] = assigned_page_ids[2]
  /\ assigned_page_ids[2] > assigned_page_ids[1] + 1
  /\ call.op = "DidCommitLoadForFrame" /\ call.view = 2 /\ call.n = 1

\* C5 speaks of a queued find reply.  No handler ever queues one:
\* queued_find_reply_message_ is only replaced when it already holds a
\* message, so it holds none in every reachable state and every match count
\* is sent at once.
C5_NothingIsEverQueued ==
  \A v \in AllViews : queued_find_reply_message_[v] = NullMsg

LoadingTypes == {"ViewHostMsg_DidStartLoading", "ViewHostMsg_DidStopLoading"}

\* The loading messages among those the last handler sent, by type and view.
SentLoading ==
  [i \in 1..Len(SentOfType(LoadingTypes)) |->
     PlainMsg(SentOfType(LoadingTypes)[i].type, SentOfType(LoadingTypes)[i].routing_id)]

\* The loading messages view v has sent so far.
LoadingMsgsOf(v) == SelectSeq(loading_msgs, LAMBDA m : m.routing_id = v)

\* C6: the DidStartLoading and DidStopLoading messages a view sends strictly
\* alternate, beginning with DidStartLoading, whatever the sequence of
\* callbacks; a DidStartLoading while loading and a DidStopLoading while not
\* loading send nothing and change no state.
C6_LoadingAlternates ==
  [][/\ loading_msgs' = loading_msgs \o SentLoading'
     /\ \A v \in AllViews :
          \A i \in 1..Len(LoadingMsgsOf(v)') :
            LoadingMsgsOf(v)'[i].type =
              IF i % 2 = 1 THEN "ViewHostMsg_DidStartLoading"
                           ELSE "ViewHostMsg_DidStopLoading"
     /\ (\/ call'.op = "DidStartLoading" /\ is_loading_[call'.view]
         \/ call'.op = "DidStopLoading" /\ ~is_loading_[call'.view]) =>
          /\ sent' = <<>>
          /\ engine' = <<>>
          /\ UNCHANGED <<viewVars, pageVars, targetVars, popupVars, requestVars,
                         findVars, loadVars, miscVars, tasks, mainVars>>]_vars

\* C6 witness: a view has sent start, stop, start, and a further
\* DidStartLoading callback, arriving while it loads, has sent nothing.
C6_Witness ==
  /\ call.op = "DidStartLoading"
  /\ is_loading_[call.view]
  /\ sent = <<>>
  /\ Len(LoadingMsgsOf(call.view)) = 3

\* C7: text of https pages is never indexed: a capture, preliminary or
\* final, that finds a secure URL in the main frame sends no
\* ViewHostMsg_PageContents, and no ViewHostMsg_PageContents ever carries a
\* secure URL.
C7_SecureTextNeverIndexed ==
  /\ (call.op = "CapturePageInfo" /\ SchemeIsSecure(call.url)) =>
       SentOfType({"ViewHostMsg_PageContents"}) = <<>>
  /\ \A i \in 1..Len(sent) :
       sent[i].type = "ViewHostMsg_PageContents" => ~SchemeIsSecure(sent[i].url)

\* C7 witness: the final capture of an https page has run to its end: the
\* page is marked as indexed and its thumbnail was sent, its text was not.
C7_Witness ==
  /\ call.op = "CapturePageInfo"
  /\ SchemeIsSecure(call.url)
  /\ last_indexed_page_id_[call.view] = call.n
  /\ call.n > 0
  /\ sent = <<ThumbnailMsg(call.view, call.url)>>

ErrorPageTypes == {"DNS_ERROR", "HTTP_404", "CONNECTION_ERROR"}

\* C8: a failed provisional load of a secure URL never fetches an alternate
\* error page: GetAlternateErrorPageURL is empty for every secure failed URL,
\* whatever alternate_error_page_url_ holds, and DidFailProvisionalLoadWithError
\* for a secure URL never calls LoadAlternateHTMLErrorPage; for the error
\* codes of the alternate error page service it loads the local error page.
C8_NoAlternatePageForSecureURL ==
  /\ \A v \in views, url \in FailedURLs, error_type \in ErrorPageTypes :
       SchemeIsSecure(url) => GetAlternateErrorPageURL(v, url, error_type) = EmptyGURL
  /\ (call.op = "DidFailProvisionalLoadWithError" /\ SchemeIsSecure(call.url)) =>
       /\ EngineCallsNamed("LoadAlternateHTMLErrorPage") = <<>>
       /\ sent[1].error_code \in AlternateErrorCodes =>
            /\ Len(engine) = 1
            /\ engine[1].name = "LoadAlternateHTMLString"
            /\ engine[1].url = call.url

\* C8 witness: the browser has set an alternate error page URL, the load of
\* an https URL failed with a DNS error, and the local error page was loaded.
C8_Witness ==
  /\ call.op = "DidFailProvisionalLoadWithError"
  /\ SchemeIsSecure(call.url)
  /\ IsValid(alternate_error_page_url_[call.view])
  /\ sent[1].error_code = "ERR_NAME_NOT_RESOLVED"
  /\ EngineCallsNamed("LoadAlternateHTMLString") # <<>>

\* C9 as stated: the live popups still associated with one shared popup
\* counter never number more than kMaximumNumberOfUnacknowledgedPopups (25).
C9_AtMost25Popups ==
  \A c \in AllCounters : Cardinality(PopupsOf(c)) <= kMaximumNumberOfUnacknowledgedPopups

\* C10: a CreateWebView that passes the popup limit sets
\* popup_notification_visible_; while the flag is set CloseWidgetSoon is a
\* no-op (nothing reaches RenderWidget, nothing is sent, no field changes),
\* and only ViewMsg_PopupNotificationVisiblityChanged(false) clears the flag,
\* after which CloseWidgetSoon is passed to RenderWidget again.
C10_CloseBlockedWhileNotificationVisible ==
  [][/\ (call'.op = "CreateWebView"
           /\ counter_data[shared_popup_counter_[call'.view]]
                <= kMaximumNumberOfUnacknowledgedPopups) =>
          popup_notification_visible_'[call'.view]
     /\ (call'.op = "CloseWidgetSoon" /\ popup_notification_visible_[call'.view]) =>
          /\ engine' = <<>>
          /\ sent' = <<>>
          /\ UNCHANGED <<viewVars, pageVars, targetVars, popupVars, requestVars,
                         findVars, loadVars, miscVars, tasks, mainVars>>
     /\ (call'.op = "CloseWidgetSoon" /\ ~popup_notification_visible_[call'.view]) =>
          engine' = <<EngineCall("RenderWidget::CloseWidgetSoon", call'.view,
                                 EmptyGURL, FALSE)>>
     /\ \A v \in views :
          (popup_notification_visible_[v] /\ ~popup_notification_visible_'[v]) =>
            /\ call'.op = "OnPopupNotificationVisiblityChanged"
            /\ call'.view = v
            /\ call'.n = 0]_vars

\* C10 witness: a view has asked for a window and then called
\* CloseWidgetSoon, which did nothing because the flag is still set.
C10_Witness ==
  /\ call.op = "CloseWidgetSoon"
  /\ popup_notification_visible_[call.view]
  /\ create_window_requests >= 1
  /\ engine = <<>>

\* C11: ViewHostMsg_ShowView goes out at most once for a RenderView, however
\* often Show is called, and never for a view created without an opener,
\* whose did_show_ is true from Init on.
C11_ShowViewAtMostOnce ==
  \A v \in 1..num_created :
    /\ show_view_msgs[v] <= 1
    /\ opener_id_[v] = MSG_ROUTING_NONE => did_show_[v] /\ show_view_msgs[v] = 0
    /\ (call.op = "Show" /\ call.view = v /\ Len(sent) > 0) => show_calls[v] = 1

\* Show has run twice for a view with an opener, which sent one message, and
\* at least once for a view without an opener, which sent none.
C11_Witness ==
  /\ \E v \in 1..num_created :
       /\ opener_id_[v] # MSG_ROUTING_NONE
       /\ show_calls[v] = 2
       /\ show_view_msgs[v] = 1
  /\ \E v \in 1..num_created :
       /\ opener_id_[v] = MSG_ROUTING_NONE
       /\ show_calls[v] >= 1
       /\ show_view_msgs[v] = 0

\* C12: a view has at most one file chooser outstanding.  A RunFileChooser
\* that finds a callback pending sends nothing, keeps the pending callback
\* and discards its own without invoking it; OnFileChooserResponse invokes
\* the pending callback once and clears it, and does nothing when none is
\* pending; no callback is ever invoked twice.
C12_OneFileChooserPerView ==
  [][LET v == call'.view
         pending == file_chooser_[v]
     IN  /\ (call'.op = "RunFileChooser" /\ pending # 0) =>
               /\ sent' = <<>>
               /\ file_chooser_' = file_chooser_
               /\ chooser_callbacks' =
                    Append(chooser_callbacks, [view |-> v, invoked |-> 0, deleted |-> TRUE])
         /\ (call'.op = "RunFileChooser" /\ pending = 0) =>
               /\ Len(SentOfType({"ViewHostMsg_RunFileChooser"})') = 1
               /\ file_chooser_'[v] = call'.n
         /\ (call'.op = "OnFileChooserResponse" /\ pending # 0) =>
               /\ chooser_callbacks'[pending].invoked = chooser_callbacks[pending].invoked + 1
               /\ file_chooser_'[v] = 0
               /\ \A i \in DOMAIN chooser_callbacks :
                    i # pending => chooser_callbacks'[i] = chooser_callbacks[i]
         /\ (call'.op = "OnFileChooserResponse" /\ pending = 0) =>
               /\ file_chooser_' = file_chooser_
               /\ chooser_callbacks' = chooser_callbacks
               /\ sent' = <<>>
         /\ \A i \in DOMAIN chooser_callbacks' : chooser_callbacks'[i].invoked <= 1
    ]_vars

\* The browser has answered a view's chooser, whose callback ran once, after
\* a later request of the same view had been dropped while it was pending.
C12_Witness ==
  /\ call.op = "OnFileChooserResponse"
  /\ file_chooser_[call.view] = 0
  /\ \E i, j \in DOMAIN chooser_callbacks :
       /\ i < j
       /\ chooser_callbacks[i] = [view |-> call.view, invoked |-> 1, deleted |-> TRUE]
       /\ chooser_callbacks[j] = [view |-> call.view, invoked |-> 0, deleted |-> TRUE]

C14_HistoryItemGoesToEntry ==
  LET item == history_navigation_item_[call.view]
  IN  (/\ call.op = "DispositionForNavigationAction"
       /\ policy.is_main_frame
       /\ ~policy.has_extra_data
       /\ policy.disposition = "CURRENT_TAB"
       /\ IsValid(item.url)
       /\ call.url = item.url)
      => /\ policy.result = "IGNORE_ACTION"
         /\ sent = <<[type |-> "ViewHostMsg_GoToEntryAtOffset", routing_id |-> call.view,
                      offset |-> item.offset]>>

\* A plain view was asked to navigate to the item made for the negative,
\* two-digit offset and told the browser to go there.
C14_Witness ==
  /\ call.op = "DispositionForNavigationAction"
  /\ policy.is_main_frame /\ ~policy.has_extra_data
  /\ policy.disposition = "CURRENT_TAB"
  /\ history_navigation_item_[call.view].offset = 0 - MaxOffset
  /\ call.url = HistoryURL(<<"-", "1", "0">>)
  /\ enabled_bindings_[call.view] = {}
  /\ ~in_view_source_mode[call.view]
  /\ Len(sent) = 1 /\ sent[1].type = "ViewHostMsg_GoToEntryAtOffset"
  /\ sent[1].offset = -10

\* C15: every drag-source notification of the test shell forwards the cursor
\* position to the web view exactly once, a cancel and a drop as
\* DragSourceEndedAt and a move as DragSourceMovedTo; when the OS cursor
\* position cannot be read, the screen point forwarded is (0,0).
C15_DragForwardsCursorOnce ==
  call.op \in {"OnDragSourceCancel", "OnDragSourceDrop", "OnDragSourceMove"} =>
    /\ Len(engine) = 1
    /\ engine[1].name = (IF call.op = "OnDragSourceMove" THEN "DragSourceMovedTo"
                         ELSE "DragSourceEndedAt")
    /\ call.n = 0 => engine[1].screen = [x |-> 0, y |-> 0]
    /\ sent = <<>>

\* A drag was cancelled while the cursor position could not be read, in a
\* window whose client area is not at the screen's origin.
C15_Witness ==
  /\ call.op = "OnDragSourceCancel"
  /\ call.n = 0
  /\ Len(engine) = 1
  /\ engine[1].name = "DragSourceEndedAt"
  /\ engine[1].screen = [x |-> 0, y |-> 0]
  /\ engine[1].client = [x |-> 0 - MaxCoordinate, y |-> 1 - MaxCoordinate]

\* C16 as stated: every run of main() that has ended made, after its
\* initialisation, the calls of the shutdown sequence, in order:
\* ShutdownTestShell, CleanupLogging, and the clearing and deletion of the
\* StatsTable.
C16_EveryEndedRunShutDown ==
  [](process \in {"returned", "exited"} =>
       \E i \in 1..Len(main_calls) :
         /\ main_calls[i] = "StatsTable::set_current(table)"
         /\ \E j \in (i + 1)..Len(main_calls) :
              /\ main_calls[j] = "TestShell::ShutdownTestShell"
              /\ \E k \in (j + 1)..Len(main_calls) :
                   /\ main_calls[k] = "TestShell::CleanupLogging"
                   /\ \E l \in (k + 1)..Len(main_calls) :
                        /\ main_calls[l] = "StatsTable::set_current(NULL)"
                        /\ \E m \in (l + 1)..Len(main_calls) :
                             main_calls[m] = "delete table")

\* C16 amended: every run of main() that has returned made those calls, each
\* once and in that order after its initialisation, whether or not the
\* window was created and in whichever mode; a run that ended in exit(1)
\* (layout tests, --dump-pixels without a file name) made none of them.
C16_EveryReturnedRunShutDown ==
  [](LET Count(c) == Len(SelectSeq(main_calls, LAMBDA x : x = c))
     IN  /\ process = "returned" =>
               /\ \E i \in 1..Len(main_calls) :
                    /\ main_calls[i] = "StatsTable::set_current(table)"
                    /\ \E j \in (i + 1)..Len(main_calls) :
                         /\ main_calls[j] = "TestShell::ShutdownTestShell"
                         /\ \E k \in (j + 1)..Len(main_calls) :
                              /\ main_calls[k] = "TestShell::CleanupLogging"
                              /\ \E l \in (k + 1)..Len(main_calls) :
                                   /\ main_calls[l] = "StatsTable::set_current(NULL)"
                                   /\ l + 1 = Len(main_calls)
                                   /\ main_calls[l + 1] = "delete table"
               /\ \A c \in {"TestShell::ShutdownTestShell", "TestShell::CleanupLogging",
                            "StatsTable::set_current(NULL)", "delete table"} : Count(c) = 1
         /\ process = "exited" =>
               /\ \A c \in {"TestShell::ShutdownTestShell", "TestShell::CleanupLogging",
                            "StatsTable::set_current(NULL)", "delete table"} : Count(c) = 0
               /\ cmdline.layout_tests /\ cmdline.dump_pixels
               /\ cmdline.pixel_file_name_empty)

\* main() has returned from a run in which the window could not be created.
C16_Witness ==
  /\ process = "returned"
  /\ \A i \in 1..Len(main_calls) : main_calls[i] # "TestShell::Show"
  /\ \E i \in 1..Len(main_calls) : main_calls[i] = "TestShell::CreateNewWindow"
  /\ main_calls[Len(main_calls)] = "delete table"

\* C17: a view never has more than one ViewHostMsg_UpdateTargetURL that the
\* browser has not yet ACKed: messages sent minus ACKs received is at most 1.
C17_AtMostOneTargetURLUnacked ==
  \A v \in AllViews : unacked_target_urls[v] <= 1

\* C18: session history is captured once per browser-initiated navigation.
\* No request made by OnNavigate is taken for a session history navigation
\* by more than one commit that is not a new navigation (so
\* UpdateSessionHistory runs, and page_id_ is set to the pending page id, at
\* most once for it, whichever frames commit); such a commit changes page_id_
\* or sends ViewHostMsg_UpdateState only as the one capture of its request,
\* and when the pending page id equals page_id_ (a reload) it leaves the page
\* id alone and sends no ViewHostMsg_UpdateState.
C18_SessionHistoryOncePerRequest ==
  [][LET v == call'.view
         request == ds_extra'[v]
         state_msgs == SelectSeq(sent', LAMBDA m : m.type = "ViewHostMsg_UpdateState")
     IN  /\ \A u \in AllViews :
               /\ ds_extra'[u].session_updates <= 1
               /\ prov_extra'[u].session_updates = 0
         /\ (call'.op = "DidCommitLoadForFrame" /\ call'.n = 0) =>
               /\ (request.present /\ request.pending_page_id = page_id_[v]) =>
                     /\ page_id_'[v] = page_id_[v]
                     /\ state_msgs = <<>>
               /\ (page_id_'[v] # page_id_[v] \/ state_msgs # <<>>) =>
                     /\ request.present
                     /\ request.pending_page_id # -1
                     /\ request.session_updates = 1
                     /\ page_id_'[v] = request.pending_page_id
                     /\ Len(state_msgs) <= 1
    ]_vars

\* A frame has committed, not as a new navigation, for a request that was
\* taken for a session history navigation before and whose pending page id
\* is no longer the view's page id: the commit left the page id alone.
C18_Witness ==
  /\ call.op = "DidCommitLoadForFrame"
  /\ call.n = 0
  /\ ds_extra[call.view].session_updates = 1
  /\ ds_extra[call.view].request_committed
  /\ page_id_[call.view] # ds_extra[call.view].pending_page_id
  /\ Len(SentOfType({"ViewHostMsg_UpdateState"})) = 0

C20_HistoryCounters ==
  [][LET v == call'.view
         back == history_back_list_count_
         forward == history_forward_list_count_
         request == IF call'.n = 1 THEN prov_extra[v] ELSE ds_extra[v]
         went == SelectSeq(sent', LAMBDA m : m.type = "ViewHostMsg_GoToEntryAtOffset")
     IN  /\ call'.op = "DidAddHistoryItem" =>
               /\ IF request.present /\ request.transition_type = "START_PAGE"
                    THEN back'[v] = back[v] /\ forward'[v] = forward[v]
                    ELSE back'[v] = back[v] + 1 /\ forward'[v] = 0
               /\ \A u \in AllViews \ {v} : back'[u] = back[u] /\ forward'[u] = forward[u]
         /\ went # <<>> =>
               /\ Len(went) = 1
               /\ back'[v] = back[v] + went[1].offset
               /\ forward'[v] = forward[v] - went[1].offset
               /\ back'[v] + forward'[v] = back[v] + forward[v]
               /\ \A u \in AllViews \ {v} : back'[u] = back[u] /\ forward'[u] = forward[u]
    ]_vars

\* The engine added a history item while it committed the browser's start
\* page navigation, in a view whose counts the browser had set, and the
\* counts stayed.
C20_Witness ==
  /\ call.op = "DidAddHistoryItem"
  /\ call.n = 1
  /\ prov_extra[call.view].present
  /\ prov_extra[call.view].transition_type = "START_PAGE"
  /\ history_back_list_count_[call.view] = 2
  /\ history_forward_list_count_[call.view] = 1

\* C21: event recording and playback are stopped only if they were started:
\* under every command line, main() calls EventRecorder::StopRecording only
\* in a run in which it called StartRecording, and StopPlayback only in a
\* run in which it called StartPlayback.
C21_StoppedOnlyIfStarted ==
  [](LET Called(c) == \E i \in 1..Len(main_calls) : main_calls[i] = c
     IN  /\ Called("EventRecorder::StopRecording") => Called("EventRecorder::StartRecording")
         /\ Called("EventRecorder::StopPlayback") => Called("EventRecorder::StartPlayback"))

====
